---- MODULE Spec2Model ----
(***************************************************************************)
(* peekaboo: classical cryptanalysis of Caesar and Vigenere ciphertexts.   *)
(*                                                                         *)
(* Characters are ASCII codes, strings are sequences of codes.  An f64 is  *)
(* a fixed-point integer in units of 1/Scale (the reference frequencies    *)
(* have five decimals), f64::MAX and -infinity are the two extreme         *)
(* integers.  Option<T> is <<>> (None) or <<v>> (Some(v)).                 *)
(***************************************************************************)
EXTENDS Integers, Sequences, FiniteSets, TLC

\* ------------------------------------------------------------------ bounds
MaxLen == 3

\* ------------------------------------------------------------- input sets
Alphabet == {65, 90, 101, 32, 49}          \* 'A' 'Z' 'e' ' ' '1'

SmallTexts == UNION {[1..n -> Alphabet] : n \in 0..MaxLen}

Shifts == {-128, -27, -1, 0, 1, 8, 26, 127}

Keywords == {<<66>>, <<122>>, <<65, 90>>, <<75, 101, 89>>,
             <<76, 69, 77, 79, 78>>, <<>>, <<49, 50, 51>>}

\* ------------------------------------------------------------ option type
None == <<>>
Some(v) == <<v>>
IsSome(o) == o # <<>>
Unwrap(o) == Head(o)

\* s[i], with s evaluated once
At(s, i) == Head(SubSeq(s, i, i))

\* ------------------------------------------------------------- characters
is_ascii_uppercase(c) == c >= 65 /\ c <= 90
is_ascii_lowercase(c) == c >= 97 /\ c <= 122
is_ascii_alphabetic(c) == is_ascii_uppercase(c) \/ is_ascii_lowercase(c)
to_ascii_uppercase(c) == IF is_ascii_lowercase(c) THEN c - 32 ELSE c

MapStr(f(_), s) == [i \in 1..Len(s) |-> f(At(s, i))]

str_to_ascii_uppercase(s) == MapStr(to_ascii_uppercase, s)

\* usize::to_string: the decimal digits of n
RECURSIVE to_string(_)
to_string(n) == IF n < 10 THEN <<48 + n>>
                ELSE to_string(n \div 10) \o <<48 + (n % 10)>>

\* ------------------------------------------------------- cipher_utils.rs
shift_char_nowrap(c, shift) ==
    IF ~is_ascii_alphabetic(c) THEN c
    ELSE LET base == IF is_ascii_uppercase(c) THEN 65 ELSE 97
         IN  (base + (c - base + shift)) % 256

shift_char(c, shift) ==
    IF ~is_ascii_alphabetic(c) THEN c
    ELSE LET base == IF is_ascii_uppercase(c) THEN 65 ELSE 97
             shifted_offset == (c - base + shift) % 26
         IN  base + shifted_offset

shift_char_string(s, shift) == [i \in 1..Len(s) |-> shift_char(At(s, i), shift)]

\* ------------------------------------------- ciphers/vigenere/decode.rs
keyword_ok(keyword) ==
    keyword # <<>> /\ \A i \in 1..Len(keyword) : is_ascii_alphabetic(At(keyword, i))

\* number of ASCII letters among the first i characters of s (key_index
\* when the loop reaches character i+1)
LettersBefore(s, i) == Cardinality({j \in 1..i : is_ascii_alphabetic(At(s, j))})

key_shift_at(keyword, key_index) ==
    At(str_to_ascii_uppercase(keyword), (key_index % Len(keyword)) + 1) - 65

vigenere_decrypt_stuck_key(ciphertext, keyword) ==
    IF ~keyword_ok(keyword) THEN ciphertext
    ELSE [i \in 1..Len(ciphertext) |->
            IF is_ascii_alphabetic(At(ciphertext, i))
            THEN shift_char(At(ciphertext, i), -key_shift_at(keyword, i - 1))
            ELSE At(ciphertext, i)]

vigenere_decrypt(ciphertext, keyword) ==
    IF ~keyword_ok(keyword) THEN ciphertext
    ELSE [i \in 1..Len(ciphertext) |->
            IF is_ascii_alphabetic(At(ciphertext, i))
            THEN shift_char(At(ciphertext, i),
                            -key_shift_at(keyword, LettersBefore(ciphertext, i - 1)))
            ELSE At(ciphertext, i)]

vigenere_encrypt(plaintext, keyword) ==
    IF ~keyword_ok(keyword) THEN plaintext
    ELSE [i \in 1..Len(plaintext) |->
            IF is_ascii_alphabetic(At(plaintext, i))
            THEN shift_char(At(plaintext, i),
                            key_shift_at(keyword, LettersBefore(plaintext, i - 1)))
            ELSE At(plaintext, i)]

\* ------------------------------------------------------------ f64 values
Scale == 100000
F64_MAX == 2147483647
NEG_INFINITY == -2147483647

Abs(x) == IF x < 0 THEN -x ELSE x

\* floor(a * b / c) for a, b >= 0 and c > 0, without leaving 32 bits
MulDiv(a, b, c) == (a \div c) * b + ((a % c) * b) \div c

\* f[lo] + ... + f[hi], by halving
RECURSIVE SumRange(_, _, _)
SumRange(f, lo, hi) ==
    IF lo > hi THEN 0
    ELSE IF lo = hi THEN At(f, lo)
    ELSE SumRange(f, lo, (lo + hi) \div 2) + SumRange(f, ((lo + hi) \div 2) + 1, hi)

SumTo(f, n) == SumRange(f, 1, n)

\* slice::sort_by with a comparator: the stable sort of s, where
\* Less(a, b) says the comparator returns Ordering::Less for (a, b)
SortBy(s, Less(_, _)) ==
    LET n == Len(s)
        rank == [i \in 1..n |->
                   Cardinality({j \in 1..n : Less(At(s, j), At(s, i))})
                   + Cardinality({j \in 1..(i - 1) :
                                    ~Less(At(s, j), At(s, i)) /\ ~Less(At(s, i), At(s, j))})
                   + 1]
    IN  [p \in 1..n |-> At(s, CHOOSE i \in 1..n : At(rank, i) = p)]

\* ------------------------------------------------------------ analysis.rs
ENGLISH_FREQUENCIES ==
    << 8167, 1492, 2782, 4253, 12702, 2228, 2015,
       6094, 6966, 153, 772, 4025, 2406, 6749,
       7507, 1929, 95, 5987, 6327, 9056, 2758,
       978, 2360, 150, 1974, 74 >>
ENGLISH_IC == 6670

letter_index(c) == to_ascii_uppercase(c) - 65

letter_counts(text) ==
    [k \in 1..26 |->
        Cardinality({i \in 1..Len(text) :
                       is_ascii_alphabetic(At(text, i)) /\ letter_index(At(text, i)) = k - 1})]

calculate_frequencies(text) ==
    LET counts == letter_counts(text)
        total_chars == SumTo(counts, 26)
    IN  IF total_chars = 0 THEN None
        ELSE Some([frequencies |-> [k \in 1..26 |-> (At(counts, k) * Scale) \div total_chars],
                   total_chars |-> total_chars])

chi_squared_score_skips_zero(observed, expected) ==
    SumTo([k \in 1..26 |->
             IF At(expected, k) = 0 THEN 0
             ELSE LET difference == Abs(At(observed, k) - At(expected, k))
                  IN  MulDiv(difference, difference, At(expected, k))], 26)

chi_squared_score(observed, expected) ==
    IF \E k \in 1..26 : At(expected, k) = 0 /\ At(observed, k) # 0 THEN F64_MAX
    ELSE SumTo([k \in 1..26 |->
                  IF At(expected, k) = 0 THEN 0
                  ELSE LET difference == Abs(At(observed, k) - At(expected, k))
                       IN  MulDiv(difference, difference, At(expected, k))], 26)

score_english_likelihood(text) ==
    LET f == calculate_frequencies(text)
    IN  IF f = None THEN None
        ELSE Some(chi_squared_score(Unwrap(f).frequencies, ENGLISH_FREQUENCIES))

get_alphabetic_chars(text) == SelectSeq(text, is_ascii_alphabetic)

calculate_ic_min3(text) ==
    LET alpha_text == get_alphabetic_chars(text)
        n == Len(alpha_text)
        counts == letter_counts(alpha_text)
        sum == SumTo([k \in 1..26 |-> At(counts, k) * (At(counts, k) - 1)], 26)
    IN  IF n < 3 THEN None
        ELSE Some((sum * Scale) \div (n * (n - 1)))

calculate_ic(text) ==
    LET alpha_text == get_alphabetic_chars(text)
        n == Len(alpha_text)
        counts == letter_counts(alpha_text)
        sum == SumTo([k \in 1..26 |-> At(counts, k) * (At(counts, k) - 1)], 26)
    IN  IF n < 2 THEN None
        ELSE Some((sum * Scale) \div (n * (n - 1)))

\* --------------------------------------------- ciphers/caesar/decode.rs
Attempt(name, key, plaintext, score) ==
    [cipher_name |-> name, key |-> key, plaintext |-> plaintext, score |-> score]

caesar_candidate_forward(ciphertext, shift) ==
    [i \in 1..Len(ciphertext) |-> shift_char(At(ciphertext, i), shift)]

caesar_candidate(ciphertext, shift) ==
    [i \in 1..Len(ciphertext) |-> shift_char(At(ciphertext, i), -shift)]

caesar_iteration_no_sentinel(ciphertext, shift, attempts_is_empty) ==
    LET potential_plaintext == caesar_candidate(ciphertext, shift)
        score == score_english_likelihood(potential_plaintext)
    IN  IF IsSome(score)
        THEN <<Attempt("Caesar", to_string(shift), potential_plaintext, Unwrap(score))>>
        ELSE <<>>

\* one iteration of the loop over shift: the row it pushes, if any.
\* attempts_is_empty is attempts.is_empty() when the iteration starts.
caesar_iteration(ciphertext, shift, attempts_is_empty) ==
    LET potential_plaintext == caesar_candidate(ciphertext, shift)
        score == score_english_likelihood(potential_plaintext)
    IN  IF IsSome(score)
        THEN <<Attempt("Caesar", to_string(shift), potential_plaintext, Unwrap(score))>>
        ELSE IF potential_plaintext # <<>> /\ attempts_is_empty
                /\ shift = 0
                /\ \E i \in 1..Len(ciphertext) : ~is_ascii_alphabetic(At(ciphertext, i))
        THEN <<Attempt("Caesar", to_string(shift), potential_plaintext, F64_MAX)>>
        ELSE <<>>

\* attempts.is_empty() at the start of iteration shift: no earlier iteration
\* pushed.  Only iteration 0 can push without a score, and it starts empty.
caesar_empty_before(ciphertext, shift) ==
    \A t \in 0..(shift - 1) : caesar_iteration(ciphertext, t, t = 0) = <<>>

Pushed(rows) == rows # <<>>

\* the loop `for shift in 0..26`: the rows pushed, in shift order
caesar_attempts(ciphertext) ==
    LET pushes == [s \in 1..26 |->
                     caesar_iteration(ciphertext, s - 1,
                                      caesar_empty_before(ciphertext, s - 1))]
        kept == SelectSeq(pushes, Pushed)
    IN  [k \in 1..Len(kept) |-> At(At(kept, k), 1)]

ScoreAscending_flipped(a, b) == b.score < a.score

ScoreAscending(a, b) == a.score < b.score

ScoreDescending(a, b) == b.score < a.score

caesar_unsorted(ciphertext) == caesar_attempts(ciphertext)

run_caesar_decryption(ciphertext) ==
    SortBy(caesar_attempts(ciphertext), ScoreAscending)

\* -------------------------------------------- ciphers/caesar/identify.rs
\* "Potential Shift: "
PotentialShift ==
    <<80, 111, 116, 101, 110, 116, 105, 97, 108, 32, 83, 104, 105, 102, 116, 58, 32>>

caesar_scores(ciphertext) ==
    [s \in 1..26 |-> score_english_likelihood(caesar_candidate(ciphertext, s - 1))]

caesar_improves_always(scores, shift) == IsSome(At(scores, shift + 1))

caesar_improves_or_ties(scores, shift) ==
    /\ IsSome(At(scores, shift + 1))
    /\ Unwrap(At(scores, shift + 1)) < F64_MAX
    /\ \A t \in 0..(shift - 1) :
          IsSome(At(scores, t + 1)) => Unwrap(At(scores, shift + 1)) <= Unwrap(At(scores, t + 1))

\* iteration shift assigns best_score and best_shift when its score is
\* below best_score, which is f64::MAX or the lowest score seen so far
caesar_improves(scores, shift) ==
    /\ IsSome(At(scores, shift + 1))
    /\ Unwrap(At(scores, shift + 1)) < F64_MAX
    /\ \A t \in 0..(shift - 1) :
          IsSome(At(scores, t + 1)) => Unwrap(At(scores, shift + 1)) < Unwrap(At(scores, t + 1))

\* best_score and best_shift after the loop: those of the last assignment
caesar_best(ciphertext) ==
    LET scores == caesar_scores(ciphertext)
        assigned == {s \in 0..25 : caesar_improves(scores, s)}
        last == CHOOSE s \in assigned : \A t \in assigned : t <= s
    IN  IF assigned = {} THEN [best_score |-> F64_MAX, best_shift |-> None]
        ELSE [best_score |-> Unwrap(At(scores, last + 1)), best_shift |-> Some(last)]

run_caesar_identification(ciphertext) ==
    LET b == caesar_best(ciphertext)
    IN  IF b.best_shift = None THEN None
        ELSE Some([cipher_name |-> "Caesar",
                   confidence_score |-> b.best_score,
                   parameters |-> Some(PotentialShift \o to_string(Unwrap(b.best_shift)))])

\* --------------------------------------------------- analysis.rs: Kasiski
Take_all(s, n) == s

Take(s, n) == SubSeq(s, 1, IF n < Len(s) THEN n ELSE Len(s))

\* &s[i..i+len] with the 0-based index i of the source
Slice(s, i, len) == SubSeq(s, i + 1, i + len)

\* s[from..].contains(seq)
ContainsFrom(s, from, seq) ==
    \E j \in from..(Len(s) - Len(seq)) : Slice(s, j, Len(seq)) = seq

isqrt(n) == CHOOSE k \in 0..n : k * k <= n /\ (k + 1) * (k + 1) > n

find_factors_small_only(number) ==
    IF number = 0 THEN {}
    ELSE LET limit == isqrt(number)
         IN  {d \in 1..limit : number % d = 0}

find_factors(number) ==
    IF number = 0 THEN {}
    ELSE LET limit == isqrt(number)
         IN  UNION {{i, number \div i} : i \in {d \in 1..limit : number % d = 0}}

Occurrences_first_two(alpha_text, seq) ==
    LET Hit(i) == Slice(alpha_text, i, Len(seq)) = seq
    IN  Take(SelectSeq([k \in 1..(Len(alpha_text) - Len(seq) + 1) |-> k - 1], Hit), 2)

\* every 0-based index at which seq occurs in alpha_text, ascending: the
\* index pushed by the insert and the indices pushed by get_mut afterwards
Occurrences(alpha_text, seq) ==
    LET Hit(i) == Slice(alpha_text, i, Len(seq)) = seq
    IN  SelectSeq([k \in 1..(Len(alpha_text) - Len(seq) + 1) |-> k - 1], Hit)

\* the inner loop over i for one substring length: a substring enters the
\* map at the first index i where it is not yet a key and occurs again in
\* alpha_text[(i+1)..]; every later occurrence is pushed to its positions
kasiski_scan_len(alpha_text, len) ==
    LET IsInserted(i) ==
            /\ ~\E j \in 0..(i - 1) : Slice(alpha_text, j, len) = Slice(alpha_text, i, len)
            /\ ContainsFrom(alpha_text, i + 1, Slice(alpha_text, i, len))
        inserted == SelectSeq([k \in 1..(Len(alpha_text) - len + 1) |-> k - 1], IsInserted)
    IN  [e \in 1..Len(inserted) |->
            [seq |-> Slice(alpha_text, At(inserted, e), len),
             positions |-> Occurrences(alpha_text, Slice(alpha_text, At(inserted, e), len))]]

\* the outer loop, len from the largest length down to min_len
RECURSIVE kasiski_scan(_, _, _, _)
kasiski_scan(alpha_text, len, min_len, sequences) ==
    IF len < min_len THEN sequences
    ELSE kasiski_scan(alpha_text, len - 1, min_len,
                      sequences \o kasiski_scan_len(alpha_text, len))

Min(a, b) == IF a < b THEN a ELSE b

repeated_sequences(alpha_text, min_len, max_len) ==
    kasiski_scan(alpha_text, Min(max_len, Len(alpha_text) \div 2), min_len, <<>>)

\* the pairs (i, j), i < j, of one positions vector, as the two inner loops
\* visit them
PositionPairs(positions) ==
    {p \in (1..Len(positions)) \X (1..Len(positions)) : At(p, 1) < At(p, 2)}

\* factor_counts[factor] after the loop over sequences.values()
factor_votes(sequences, factor, max_len) ==
    SumTo([k \in 1..Len(sequences) |->
             LET positions == At(sequences, k).positions
             IN  IF Len(positions) > 1
                 THEN Cardinality(
                        {p \in PositionPairs(positions) :
                            /\ factor \in find_factors(At(positions, At(p, 2)) - At(positions, At(p, 1)))
                            /\ factor > 1 /\ factor <= max_len})
                 ELSE 0],
          Len(sequences))

HasVotes(fc) == At(fc, 2) > 0

FactorOrder_ties_descending(a, b) ==
    At(a, 2) > At(b, 2) \/ (At(a, 2) = At(b, 2) /\ At(a, 1) > At(b, 1))

FactorOrder_count_only(a, b) == At(a, 2) > At(b, 2)

\* count descending, then factor ascending
FactorOrder(a, b) == At(a, 2) > At(b, 2) \/ (At(a, 2) = At(b, 2) /\ At(a, 1) < At(b, 1))

estimate_key_lengths(text, min_len, max_len) ==
    LET alpha_text == get_alphabetic_chars(text)
        sequences == repeated_sequences(alpha_text, min_len, max_len)
        factor_counts ==
            SelectSeq([f \in 1..max_len |-> <<f, factor_votes(sequences, f, max_len)>>],
                      HasVotes)
    IN  IF Len(alpha_text) < min_len * 2 THEN <<>>
        ELSE SortBy(factor_counts, FactorOrder)

\* the entries of s in the order a hash map or hash set hands them out:
\* entry order[k] is the k-th one visited
Permute(s, order) == [k \in 1..Len(s) |-> At(s, At(order, k))]

\* every order in which n entries can be visited
Orders(n) == {o \in [1..n -> 1..n] : \A i, j \in 1..n : o[i] = o[j] => i = j}

\* estimate_key_lengths with the iteration orders of its hash maps made
\* explicit: sequences.values() visits the repeated substrings in
\* values_order, factor_counts.into_iter() hands out the counted factors in
\* into_iter_order, and the stable sort_by runs on that vector
estimate_key_lengths_hashed(text, min_len, max_len, values_order, into_iter_order) ==
    LET alpha_text == get_alphabetic_chars(text)
        sequences == repeated_sequences(alpha_text, min_len, max_len)
        visited == Permute(sequences, values_order)
        factor_counts ==
            SelectSeq([f \in 1..max_len |-> <<f, factor_votes(visited, f, max_len)>>],
                      HasVotes)
        sorted_factors == Permute(factor_counts, into_iter_order)
    IN  IF Len(alpha_text) < min_len * 2 THEN <<>>
        ELSE SortBy(sorted_factors, FactorOrder)

\* ------------------------- analysis.rs: column ranking and trigram score
\* (find_top_n_caesar_shifts_mic, score_trigram_log_prob and the trigram
\* corpus are not part of the sources at hand; they follow the design text)
MIN_CHARS_FOR_MIC == 5

MicOrder(a, b) == At(a, 2) > At(b, 2)

\* sum_i englishFreq[i] * observedFreq[(i + g) mod 26]
mic_score(counts, n, g) ==
    SumTo([k \in 1..26 |-> At(ENGLISH_FREQUENCIES, k) * At(counts, ((k - 1 + g) % 26) + 1)], 26)
        \div n

find_top_n_caesar_shifts_mic(column, top_n) ==
    LET counts == letter_counts(column)
        n == SumTo(counts, 26)
        ranked == SortBy([g \in 1..26 |-> <<g - 1, mic_score(counts, n, g - 1)>>], MicOrder)
    IN  IF top_n = 0 \/ n < MIN_CHARS_FOR_MIC THEN None
        ELSE Some(Take(ranked, top_n))

\* stand-in for the corpus table: a log10 probability that falls with the
\* rarity of the three letters (0-based letter indices)
LetterRank ==
    [k \in 1..26 |->
        Cardinality({j \in 1..26 : At(ENGLISH_FREQUENCIES, j) > At(ENGLISH_FREQUENCIES, k)})]

trigram_log_prob(a, b, c) ==
    -(2 * Scale + 4000 * (At(LetterRank, a + 1) + At(LetterRank, b + 1) + At(LetterRank, c + 1)))

score_trigram_log_prob(text) ==
    LET alpha_text == str_to_ascii_uppercase(get_alphabetic_chars(text))
        n == Len(alpha_text)
    IN  IF n < 3 THEN NEG_INFINITY
        ELSE SumTo([i \in 1..(n - 2) |->
                      trigram_log_prob(At(alpha_text, i) - 65, At(alpha_text, i + 1) - 65,
                                       At(alpha_text, i + 2) - 65)], n - 2)

\* ------------------------------------------- ciphers/vigenere/decode.rs
MIN_KASISKI_SEQ_LEN_DEC == 3
MAX_KASISKI_KEY_LEN_DEC == 20
MAX_KEY_LENGTHS_TO_TRY == 4
DEFAULT_KEY_LENGTHS_TO_TRY == <<2, 3, 4, 5, 6, 7>>
TOP_N_SHIFTS_PER_COLUMN == 3
MAX_VIGENERE_KEY_LEN_TO_ATTEMPT == 15

vigenere_column_skips_first(alpha_text, i, key_len) ==
    LET count == IF Len(alpha_text) > i + 1
                 THEN ((Len(alpha_text) - i - 2) \div key_len) + 1
                 ELSE 0
    IN  [k \in 1..count |-> At(alpha_text, i + (k - 1) * key_len + 2)]

\* alpha_text.chars().skip(i).step_by(key_len)
vigenere_column(alpha_text, i, key_len) ==
    LET count == IF Len(alpha_text) > i THEN ((Len(alpha_text) - i - 1) \div key_len) + 1
                 ELSE 0
    IN  [k \in 1..count |-> At(alpha_text, i + (k - 1) * key_len + 1)]

multi_cartesian_product_diagonal(lists) ==
    IF lists = <<>> THEN << <<>> >>
    ELSE [k \in 1..Len(Head(lists)) |-> [i \in 1..Len(lists) |-> At(At(lists, i), k)]]

\* itertools multi_cartesian_product: the last list varies fastest
RECURSIVE multi_cartesian_product(_)
multi_cartesian_product(lists) ==
    IF lists = <<>> THEN << <<>> >>
    ELSE LET first == Head(lists)
             rest == multi_cartesian_product(Tail(lists))
         IN  [k \in 1..(Len(first) * Len(rest)) |->
                <<At(first, ((k - 1) \div Len(rest)) + 1)>> \o At(rest, ((k - 1) % Len(rest)) + 1)]

HasKeyword(attempt) == attempt.key # <<>>

\* the per-column ranking of one key length, up to the column that stops it
column_rankings(alpha_text, key_len) ==
    [i \in 1..key_len |->
        find_top_n_caesar_shifts_mic(vigenere_column(alpha_text, i - 1, key_len),
                                     TOP_N_SHIFTS_PER_COLUMN)]

vigenere_try_length_letters_only(ciphertext, alpha_text, key_len) ==
    LET rankings == column_rankings(alpha_text, key_len)
        possible_key == \A i \in 1..key_len : IsSome(At(rankings, i))
        top_shifts_per_column ==
            [i \in 1..key_len |->
                [j \in 1..Len(Unwrap(At(rankings, i))) |-> At(At(Unwrap(At(rankings, i)), j), 1)]]
        combinations == multi_cartesian_product(top_shifts_per_column)
        tried == [c \in 1..Len(combinations) |->
                    LET keyword == [j \in 1..Len(At(combinations, c)) |-> 65 + At(At(combinations, c), j)]
                        plaintext == vigenere_decrypt(alpha_text, keyword)
                    IN  Attempt("Vigenere", keyword, plaintext,
                                score_trigram_log_prob(plaintext))]
    IN  IF key_len = 0 \/ ~possible_key THEN <<>>
        ELSE SelectSeq(tried, HasKeyword)

vigenere_try_length_padded(ciphertext, alpha_text, key_len) ==
    LET rankings == column_rankings(alpha_text, key_len)
        top_shifts_per_column ==
            [i \in 1..key_len |->
                IF IsSome(At(rankings, i))
                THEN [j \in 1..Len(Unwrap(At(rankings, i))) |-> At(At(Unwrap(At(rankings, i)), j), 1)]
                ELSE <<0>>]
        combinations == multi_cartesian_product(top_shifts_per_column)
        tried == [c \in 1..Len(combinations) |->
                    LET keyword == [j \in 1..Len(At(combinations, c)) |-> 65 + At(At(combinations, c), j)]
                        plaintext == vigenere_decrypt(ciphertext, keyword)
                    IN  Attempt("Vigenere", keyword, plaintext,
                                score_trigram_log_prob(plaintext))]
    IN  IF key_len = 0 THEN <<>>
        ELSE SelectSeq(tried, HasKeyword)

\* one iteration of `for key_len in &key_lengths_to_try`: the attempts pushed
vigenere_try_length(ciphertext, alpha_text, key_len) ==
    LET rankings == column_rankings(alpha_text, key_len)
        possible_key == \A i \in 1..key_len : IsSome(At(rankings, i))
        top_shifts_per_column ==
            [i \in 1..key_len |->
                [j \in 1..Len(Unwrap(At(rankings, i))) |-> At(At(Unwrap(At(rankings, i)), j), 1)]]
        combinations == multi_cartesian_product(top_shifts_per_column)
        tried == [c \in 1..Len(combinations) |->
                    LET keyword == [j \in 1..Len(At(combinations, c)) |-> 65 + At(At(combinations, c), j)]
                        plaintext == vigenere_decrypt(ciphertext, keyword)
                    IN  Attempt("Vigenere", keyword, plaintext,
                                score_trigram_log_prob(plaintext))]
    IN  IF key_len = 0 \/ ~possible_key THEN <<>>
        ELSE SelectSeq(tried, HasKeyword)

RECURSIVE vigenere_search(_, _, _)
vigenere_search(ciphertext, alpha_text, key_lengths) ==
    IF key_lengths = <<>> THEN <<>>
    ELSE vigenere_try_length(ciphertext, alpha_text, Head(key_lengths))
         \o vigenere_search(ciphertext, alpha_text, Tail(key_lengths))

WithinKeyLenCap(len) == len <= MAX_VIGENERE_KEY_LEN_TO_ATTEMPT

choose_key_lengths_default_first(key_length_estimates) ==
    SelectSeq(DEFAULT_KEY_LENGTHS_TO_TRY
              \o [k \in 1..Len(Take(key_length_estimates, MAX_KEY_LENGTHS_TO_TRY)) |->
                    At(At(key_length_estimates, k), 1)],
              WithinKeyLenCap)

choose_key_lengths_uncapped(key_length_estimates) ==
    IF key_length_estimates = <<>> THEN DEFAULT_KEY_LENGTHS_TO_TRY
    ELSE [k \in 1..Len(Take(key_length_estimates, MAX_KEY_LENGTHS_TO_TRY)) |->
            At(At(key_length_estimates, k), 1)]

choose_key_lengths(key_length_estimates) ==
    SelectSeq(IF key_length_estimates = <<>> THEN DEFAULT_KEY_LENGTHS_TO_TRY
              ELSE [k \in 1..Len(Take(key_length_estimates, MAX_KEY_LENGTHS_TO_TRY)) |->
                      At(At(key_length_estimates, k), 1)],
              WithinKeyLenCap)

gate_rejects_inclusive(alpha_len, min_text_len) == alpha_len <= min_text_len

gate_rejects(alpha_len, min_text_len) == alpha_len < min_text_len

sort_attempts_ascending(attempts) == SortBy(attempts, ScoreAscending)

sort_attempts(attempts) == SortBy(attempts, ScoreDescending)

\* the result, with the intermediate values of the call
run_vigenere_decryption(ciphertext, min_text_len) ==
    LET alpha_text == get_alphabetic_chars(ciphertext)
        key_length_estimates ==
            estimate_key_lengths(alpha_text, MIN_KASISKI_SEQ_LEN_DEC, MAX_KASISKI_KEY_LEN_DEC)
        key_lengths_to_try == choose_key_lengths(key_length_estimates)
    IN  IF gate_rejects(Len(alpha_text), min_text_len)
        THEN [searched |-> FALSE, key_length_estimates |-> <<>>,
              key_lengths_to_try |-> <<>>, attempts |-> <<>>]
        ELSE [searched |-> TRUE, key_length_estimates |-> key_length_estimates,
              key_lengths_to_try |-> key_lengths_to_try,
              attempts |-> sort_attempts(
                             vigenere_search(ciphertext, alpha_text, key_lengths_to_try))]

\* ------------------------------------------ ciphers/vigenere/identify.rs
MIN_KASISKI_SEQ_LEN == 3
MAX_KASISKI_KEY_LEN == 20
RANDOM_IC == 3846
IC_MARGIN == 500
TOP_ESTIMATES_SHOWN == 5

\* "Low IC ("
LowIcPrefix ==
    <<76, 111, 119, 32, 73, 67, 32, 40>>

\* ") suggests Polyalphabetic, Kasiski inconclusive."
InconclusiveSuffix ==
    <<41, 32, 115, 117, 103, 103, 101, 115, 116, 115, 32, 80, 111, 108, 121,
      97, 108, 112, 104, 97, 98, 101, 116, 105, 99, 44, 32, 75, 97, 115, 105,
      115, 107, 105, 32, 105, 110, 99, 111, 110, 99, 108, 117, 115, 105, 118,
      101, 46>>

\* "). Likely Key Lengths (Count): ["
LikelyLengthsInfix ==
    <<41, 46, 32, 76, 105, 107, 101, 108, 121, 32, 75, 101, 121, 32, 76, 101,
      110, 103, 116, 104, 115, 32, 40, 67, 111, 117, 110, 116, 41, 58, 32, 91>>

\* format!("{:.4}", ic) for 0 <= ic < 1
format_ic(ic) ==
    LET r == (ic + 5) \div 10
    IN  <<48 + (r \div 10000), 46, 48 + ((r \div 1000) % 10), 48 + ((r \div 100) % 10),
          48 + ((r \div 10) % 10), 48 + (r % 10)>>

\* the "{} ({})" items joined with ", "
RECURSIVE join_estimates(_)
join_estimates(estimates) ==
    IF estimates = <<>> THEN <<>>
    ELSE to_string(At(Head(estimates), 1)) \o <<32, 40>> \o to_string(At(Head(estimates), 2))
         \o <<41>>
         \o (IF Tail(estimates) = <<>> THEN <<>> ELSE <<44, 32>> \o join_estimates(Tail(estimates)))

\* ic > ENGLISH_IC - 0.005, decided on the exact quotient sum / (n * (n - 1))
ic_too_high(alpha_text) ==
    LET n == Len(alpha_text)
        counts == letter_counts(alpha_text)
        sum == SumTo([k \in 1..26 |-> At(counts, k) * (At(counts, k) - 1)], 26)
    IN  sum * Scale > (ENGLISH_IC - IC_MARGIN) * (n * (n - 1))

vigenere_confidence_unclamped(ic) ==
    ((ENGLISH_IC - ic) * Scale) \div (ENGLISH_IC - RANDOM_IC)

vigenere_confidence(ic) ==
    LET raw == ((ENGLISH_IC - ic) * Scale) \div (ENGLISH_IC - RANDOM_IC)
        floored == IF raw < 0 THEN 0 ELSE raw
    IN  IF floored > Scale THEN Scale ELSE floored

run_vigenere_identification(ciphertext, min_text_len) ==
    LET alpha_text == get_alphabetic_chars(ciphertext)
        ic == calculate_ic(alpha_text)
        key_length_estimates ==
            estimate_key_lengths(alpha_text, MIN_KASISKI_SEQ_LEN, MAX_KASISKI_KEY_LEN)
        params_string ==
            IF key_length_estimates = <<>>
            THEN LowIcPrefix \o format_ic(Unwrap(ic)) \o InconclusiveSuffix
            ELSE LowIcPrefix \o format_ic(Unwrap(ic)) \o LikelyLengthsInfix
                 \o join_estimates(Take(key_length_estimates, TOP_ESTIMATES_SHOWN)) \o <<93>>
    IN  IF Len(alpha_text) < min_text_len THEN None
        ELSE IF ic = None THEN None
        ELSE IF ic_too_high(alpha_text) THEN None
        ELSE Some([cipher_name |-> "Vigenere",
                   confidence_score |-> vigenere_confidence(Unwrap(ic)),
                   parameters |-> Some(params_string)])

\* ------------------------------- the IC periodicity test of the design
\* (no such estimator exists in the sources; it follows the design text)
MIN_IC_KEY_LEN == 2

ColumnIcs(alpha_text, key_len) ==
    SelectSeq([i \in 1..key_len |-> calculate_ic(vigenere_column(alpha_text, i - 1, key_len))],
              IsSome)

IcDistanceOrder(a, b) == At(a, 2) < At(b, 2)

HasValidColumn(e) == At(e, 2) >= 0

estimate_key_lengths_ic(alpha_text, min_len, max_len) ==
    LET candidates ==
            [k \in 1..(max_len - min_len + 1) |->
                LET ics == ColumnIcs(alpha_text, min_len + k - 1)
                IN  IF ics = <<>> THEN <<min_len + k - 1, -1>>
                    ELSE <<min_len + k - 1,
                           Abs(SumTo([c \in 1..Len(ics) |-> Unwrap(At(ics, c))], Len(ics))
                                  \div Len(ics) - ENGLISH_IC)>>]
    IN  SortBy(SelectSeq(candidates, HasValidColumn), IcDistanceOrder)

\* ------------------------------------------------------------- config.rs
Config_default == [vigenere_min_id_len |-> 30, vigenere_min_dec_len |-> 20]

\* ---------------------------------------------------------------- main.rs
is_whitespace(c) == c \in {9, 10, 11, 12, 13, 32}

\* str::trim
trim(s) ==
    LET kept == {i \in 1..Len(s) : ~is_whitespace(At(s, i))}
        first == CHOOSE i \in kept : \A j \in kept : i <= j
        last == CHOOSE i \in kept : \A j \in kept : j <= i
    IN  IF kept = {} THEN <<>> ELSE SubSeq(s, first, last)

is_ascii_digit(c) == c >= 48 /\ c <= 57

\* str::parse::<usize> of a string of decimal digits
RECURSIVE parse_usize(_)
parse_usize(digits) ==
    IF digits = <<>> THEN 0
    ELSE parse_usize(SubSeq(digits, 1, Len(digits) - 1)) * 10
         + (At(digits, Len(digits)) - 48)

\* read_usize_input on the lines the user types from here on: a blank line,
\* a read error (None) or the end of the input give the default, a number is
\* returned, and any other line asks again
RECURSIVE read_usize_input(_, _)
read_usize_input(lines, default) ==
    IF lines = <<>> \/ Head(lines) = None THEN default
    ELSE LET trimmed_input == trim(Unwrap(Head(lines)))
         IN  IF trimmed_input = <<>> THEN default
             ELSE IF \A i \in 1..Len(trimmed_input) : is_ascii_digit(At(trimmed_input, i))
             THEN parse_usize(trimmed_input)
             ELSE read_usize_input(Tail(lines), default)

\* choice.trim().to_lowercase().starts_with('y')
starts_with_y(choice) ==
    LET trimmed == trim(choice)
    IN  trimmed # <<>> /\ Head(trimmed) \in {89, 121}

available_identifiers == <<"Caesar", "Vigenere">>

available_decoders_reversed == <<"Vigenere", "Caesar">>

available_decoders == <<"Caesar", "Vigenere">>

identify(id_tool, config, ciphertext) ==
    IF id_tool = "Caesar" THEN run_caesar_identification(ciphertext)
    ELSE run_vigenere_identification(ciphertext, config.vigenere_min_id_len)

decrypt(decoder_name, config, ciphertext) ==
    IF decoder_name = "Caesar" THEN run_caesar_decryption(ciphertext)
    ELSE run_vigenere_decryption(ciphertext, config.vigenere_min_dec_len).attempts

\* one iteration of the loop over available_decoders: the pair it pushes
top_result(decoder_name, config, ciphertext) ==
    LET ciphertext_len == Len(get_alphabetic_chars(ciphertext))
        min_len_required ==
            IF decoder_name = "Vigenere" THEN config.vigenere_min_dec_len ELSE 0
    IN  IF ciphertext_len < min_len_required
        THEN [decoder_name |-> decoder_name, attempt |-> None]
        ELSE LET decryption_attempts == decrypt(decoder_name, config, ciphertext)
             IN  IF decryption_attempts = <<>>
                 THEN [decoder_name |-> decoder_name, attempt |-> None]
                 ELSE [decoder_name |-> decoder_name,
                       attempt |-> Some(Head(decryption_attempts))]

run_analysis_pass(config, ciphertext) ==
    LET identified == [k \in 1..Len(available_identifiers) |->
                         identify(At(available_identifiers, k), config, ciphertext)]
        pushed == SelectSeq(identified, IsSome)
    IN  [identification_results |-> [k \in 1..Len(pushed) |-> Unwrap(At(pushed, k))],
         top_results |-> [k \in 1..Len(available_decoders) |->
                            top_result(At(available_decoders, k), config, ciphertext)]]

any_decrypted(top_dec_results) ==
    \E k \in 1..Len(top_dec_results) : IsSome(At(top_dec_results, k).attempt)

retry_offered_on_first_run(first_run, identified, decrypted) == first_run

\* the condition under which the loop asks for custom settings
retry_offered(first_run, identified, decrypted) ==
    first_run /\ ~(identified \/ decrypted)

\* 3.0
CAESAR_CHI2_PREFERENCE_THRESHOLD == 300000

\* final_top_dec_results.get(index).map_or(false, |(_, opt)| opt.is_some())
has_decryption(final_top_dec_results, index) ==
    /\ index < Len(final_top_dec_results)
    /\ IsSome(At(final_top_dec_results, index + 1).attempt)

\* the digits of (rem / d) after the point, rem < d: long division, so
\* that no intermediate value leaves the integers of the model
RECURSIVE LongDiv(_, _, _)
LongDiv(rem, d, unit) ==
    IF unit = 0 THEN 0
    ELSE ((rem * 10) \div d) * unit + LongDiv((rem * 10) % d, d, unit \div 10)

\* 1.0 / (1.0 + confidence_score.max(0.0))
normalize_chi2(confidence_score) ==
    LET floored == IF confidence_score < 0 THEN 0 ELSE confidence_score
    IN  IF floored = 0 THEN Scale
        ELSE LongDiv(Scale, Scale + floored, Scale \div 10)

normalized_confidence(id_result) ==
    IF id_result.cipher_name = "Caesar" THEN normalize_chi2(id_result.confidence_score)
    ELSE IF id_result.cipher_name = "Vigenere" THEN id_result.confidence_score
    ELSE 0

\* the first loop: the first Caesar identification with a decryption at
\* its index and a score under the threshold
preferred_caesar_index(final_id_results, final_top_dec_results) ==
    LET hits == {i \in 0..(Len(final_id_results) - 1) :
                   /\ At(final_id_results, i + 1).cipher_name = "Caesar"
                   /\ has_decryption(final_top_dec_results, i)
                   /\ At(final_id_results, i + 1).confidence_score
                        < CAESAR_CHI2_PREFERENCE_THRESHOLD}
    IN  IF hits = {} THEN None ELSE Some(CHOOSE i \in hits : \A j \in hits : i <= j)

\* the second loop: the first index with the highest normalized confidence
\* among those with a decryption (every confidence is above the initial -1.0)
highest_confidence_index(final_id_results, final_top_dec_results) ==
    LET usable == {i \in 0..(Len(final_id_results) - 1) :
                     has_decryption(final_top_dec_results, i)}
        conf == [k \in 1..Len(final_id_results) |->
                   normalized_confidence(At(final_id_results, k))]
    IN  IF usable = {} THEN None
        ELSE Some(CHOOSE i \in usable :
                    \A j \in usable :
                       \/ At(conf, j + 1) < At(conf, i + 1)
                       \/ (At(conf, j + 1) = At(conf, i + 1) /\ i <= j))

best_overall_decoder_index(final_id_results, final_top_dec_results) ==
    LET preferred == preferred_caesar_index(final_id_results, final_top_dec_results)
    IN  IF IsSome(preferred) THEN preferred
        ELSE highest_confidence_index(final_id_results, final_top_dec_results)

\* the cipher name printed as the overall best guess, None when there is
\* no best guess or no attempt at its index
printed_cipher(final_top_dec_results, best_index) ==
    IF best_index = None THEN None
    ELSE LET best_attempt == At(final_top_dec_results, Unwrap(best_index) + 1).attempt
         IN  IF IsSome(best_attempt) THEN Some(Unwrap(best_attempt).cipher_name) ELSE None

\* ----------------------------------------------------------- sample texts
ScenarioPlain ==
    <<84, 104, 105, 115, 32, 105, 115, 32, 97, 32, 102, 97, 105, 114, 108,
      121, 32, 115, 116, 97, 110, 100, 97, 114, 100, 32, 115, 101, 110, 116,
      101, 110, 99, 101, 32, 102, 111, 114, 32, 116, 101, 115, 116, 105, 110,
      103, 32, 112, 117, 114, 112, 111, 115, 101, 115>>

NoAlphaText ==
    <<49, 50, 51, 32, 33, 64, 35>>

LemonCipher ==
    <<76, 88, 70, 79, 80, 86, 69, 70, 82, 78, 72, 82>>

MixedCipher ==
    <<76, 120, 102, 111, 112, 44, 32, 118, 101, 102, 32, 82, 78, 72, 82, 33>>

RepeatText ==
    <<84, 72, 69, 99, 97, 116, 84, 72, 69, 100, 111, 103, 84, 72, 69>>

FarRepeatText ==
    <<65, 66, 67, 68, 69, 70, 71, 72, 73, 74, 75, 76, 77, 78, 79, 80, 81, 65,
      66, 67>>

HelloWorld ==
    <<72, 101, 108, 108, 111, 32, 87, 111, 114, 108, 100, 33>>

\* "ABCDXYZQRABCDSXYZ": ABCD recurs at distance 9, XYZ at distance 10
AbandonText ==
    <<65, 66, 67, 68, 88, 89, 90, 81, 82, 65, 66, 67, 68, 83, 88, 89, 90>>

\* "ABCABC"
AbcAbc ==
    <<65, 66, 67, 65, 66, 67>>

\* "ABCDEFGHIJKLMNOPQRSTUVWXYZ"
AlphabetText ==
    <<65, 66, 67, 68, 69, 70, 71, 72, 73, 74, 75, 76, 77, 78, 79, 80, 81, 82,
      83, 84, 85, 86, 87, 88, 89, 90>>

\* "ABCDABC"
PeriodFourText ==
    <<65, 66, 67, 68, 65, 66, 67>>

\* "ABABA"
OverlapText ==
    <<65, 66, 65, 66, 65>>

\* "THGSWKEMDUSQDZPYFQIGNGSWKEMNBUIFQI"
KasiskiSample ==
    <<84, 72, 71, 83, 87, 75, 69, 77, 68, 85, 83, 81, 68, 90, 80, 89, 70, 81,
      73, 71, 78, 71, 83, 87, 75, 69, 77, 78, 66, 85, 73, 70, 81, 73>>

\* "ABCDEFGHIABC"
LowIcRepeat ==
    <<65, 66, 67, 68, 69, 70, 71, 72, 73, 65, 66, 67>>

\* "ABCDEFGHICAB"
LowIcNoRepeat ==
    <<65, 66, 67, 68, 69, 70, 71, 72, 73, 67, 65, 66>>

\* "SHORT"
ShortText ==
    <<83, 72, 79, 82, 84>>

\* "Sh-ORt 1"
ShortMixed ==
    <<83, 104, 45, 79, 82, 116, 32, 49>>

\* "abcABC"
AbcMixed ==
    <<97, 98, 99, 65, 66, 67>>

\* "ABABACDEFGHIJKLMNOPQRS": 22 letters, ABA recurs at distance 2
ShortPeriodText ==
    <<65, 66, 65, 66, 65, 67, 68, 69, 70, 71, 72, 73, 74, 75, 76, 77, 78, 79,
      80, 81, 82, 83>>

\* "ABABACDEFGHIJKLMNOPQRSTUVWXYZCD": 31 letters, ABA recurs at distance 2
LongPeriodText ==
    <<65, 66, 65, 66, 65, 67, 68, 69, 70, 71, 72, 73, 74, 75, 76, 77, 78, 79,
      80, 81, 82, 83, 84, 85, 86, 87, 88, 89, 90, 67, 68>>

\* "ABCDEFGHIJKLMNOPQABCRSTUVWXYZZ": 30 letters, ABC recurs at distance 17
LongFarRepeatText ==
    <<65, 66, 67, 68, 69, 70, 71, 72, 73, 74, 75, 76, 77, 78, 79, 80, 81, 65,
      66, 67, 82, 83, 84, 85, 86, 87, 88, 89, 90, 90>>

\* "THE"
The ==
    <<84, 72, 69>>

\* "THISCOLUMNREPRESENTSPLAINTEXTTHATWASSHIFTEDBYTHREELETTERS"
MicPlain ==
    <<84, 72, 73, 83, 67, 79, 76, 85, 77, 78, 82, 69, 80, 82, 69, 83, 69, 78,
      84, 83, 80, 76, 65, 73, 78, 84, 69, 88, 84, 84, 72, 65, 84, 87, 65, 83,
      83, 72, 73, 70, 84, 69, 68, 66, 89, 84, 72, 82, 69, 69, 76, 69, 84, 84,
      69, 82, 83>>

ScenarioCipher == shift_char_string(ScenarioPlain, 8)

MicCipher == shift_char_string(MicPlain, 3)

\* a profile with weight on the buckets A, B and Z only
Profile(a, b, z) ==
    [k \in 1..26 |-> IF k = 1 THEN a ELSE IF k = 2 THEN b ELSE IF k = 26 THEN z ELSE 0]

ProfileWeights == {0, 20000, 40000}

Profiles ==
    {ENGLISH_FREQUENCIES} \cup {Profile(a, b, z) : a, b, z \in ProfileWeights}

KasiskiTexts ==
    SmallTexts \cup {AbcAbc, AlphabetText, OverlapText, KasiskiSample, LemonCipher,
                     RepeatText, MixedCipher, AbandonText, PeriodFourText}
\* <<min_len, max_len>>
KasiskiRanges == {<<1, 2>>, <<2, 3>>, <<3, 2>>, <<3, 5>>, <<3, 15>>, <<3, 20>>}
AnalysisTexts == SmallTexts \cup {NoAlphaText, HelloWorld, The, ScenarioPlain}
MicColumns == SmallTexts \cup {ShortText, ShortMixed, MicCipher, LemonCipher}
TopNs == {0, 1, 3, 5, 26, 27}
IdentifyTexts ==
    SmallTexts \cup {LowIcRepeat, LowIcNoRepeat, RepeatText, LemonCipher, AlphabetText,
                     ShortMixed}
IdentifyMinLens == {0, 2, 5, 12, 13, 30}

PlainTexts == SmallTexts \cup {HelloWorld, ScenarioPlain}
IcTexts == SmallTexts \cup {HelloWorld, RepeatText}
CaesarTexts == SmallTexts \cup {ScenarioCipher, NoAlphaText}
VigenereTexts ==
    SmallTexts \cup {LemonCipher, MixedCipher, RepeatText, FarRepeatText, AbandonText}
MinTextLens == (0..(MaxLen + 1)) \cup {10, 12, 15, 20}
CaseTexts == SmallTexts \cup {AbcMixed, RepeatText, HelloWorld, MixedCipher}
\* 'A' 'M' 'Z' 'a' 'n' 'z' ' ' '1' '@' '[' '`' '{'
Chars == {65, 77, 90, 97, 110, 122, 32, 49, 64, 91, 96, 123}
I8 == (-128)..127
\* the line read_line hands back: what was typed and the line feed
Line(typed) == typed \o <<10>>
CliLines ==
    {<<>>, Line(<<>>), Line(<<32, 9>>), Line(<<49>>), Line(<<32, 65, 32>>),
     Line(NoAlphaText), Line(The), Line(HelloWorld), Line(FarRepeatText),
     Line(ShortPeriodText), Line(LongPeriodText), Line(LongFarRepeatText)}
\* the answer to the retry prompt: a read error (None) or a line
Choices == {None, Some(Line(<<121>>)), Some(Line(<<32, 89, 101, 115>>)),
            Some(Line(<<110>>)), Some(Line(<<>>))}
\* the lines typed at a numeric prompt, as far as read_usize_input reads
UsizeInputs ==
    {<<>>, <<None>>, <<Some(Line(<<>>))>>, <<Some(Line(<<48>>))>>,
     <<Some(Line(<<120>>)), Some(Line(<<32, 48, 48>>))>>}
CycleTexts ==
    {t \in SmallTexts : Len(t) <= 2}
    \cup {AlphabetText, ScenarioCipher, NoAlphaText, The, HelloWorld, AbcMixed}
ShiftedTexts ==
    {t \in SmallTexts : Len(t) <= 2}
    \cup {AbcAbc, AbcMixed, RepeatText, MixedCipher, AbandonText, OverlapText,
          PeriodFourText}
\* <<text, min_len, max_len>>
HashedCalls ==
    {<<AbcAbc, 3, 15>>, <<AbcAbc, 4, 15>>, <<OverlapText, 1, 2>>, <<RepeatText, 2, 3>>,
     <<RepeatText, 3, 15>>, <<AbandonText, 3, 15>>, <<MixedCipher, 2, 20>>}

\* ---------------------------------------------------------------- state
VARIABLES
    pc,            \* "ready", or the call that has returned
    text,          \* the text handed to the call
    keyword,       \* the keyword handed to vigenere_encrypt / vigenere_decrypt
    shift,         \* the shift handed to shift_char_string
    min_text_len,  \* VigenereDecoder.min_text_len
    encrypted,     \* vigenere_encrypt(text, keyword)
    decrypted,     \* vigenere_decrypt(encrypted, keyword)
    shifted,       \* shift_char_string(text, shift)
    ic_plain,      \* calculate_ic(text)
    ic_shifted,    \* calculate_ic(shifted)
    attempts,      \* the Vec<DecryptionAttempt> a decoder returned
    ident,         \* the Option<IdentificationResult> an identifier returned
    search,        \* the key lengths run_vigenere_decryption worked with
    min_len,       \* estimate_key_lengths: the shortest repeated substring
    max_len,       \* estimate_key_lengths: the largest factor
    estimates,     \* estimate_key_lengths(text, min_len, max_len)
    observed,      \* chi_squared_score: the observed profile
    expected,      \* chi_squared_score: the expected profile
    score,         \* chi_squared_score(observed, expected)
    frequencies,   \* calculate_frequencies(text)
    likelihood,    \* score_english_likelihood(text)
    trigram,       \* score_trigram_log_prob(text)
    top_n,         \* find_top_n_caesar_shifts_mic: the number of shifts asked for
    top_shifts,    \* find_top_n_caesar_shifts_mic(text, top_n)
    ch,            \* the character handed to shift_char
    ch_shifted,    \* shift_char(ch, shift)
    ch_back,       \* shift_char(ch_shifted, -shift), where -shift is an i8
    folded,        \* text.to_ascii_uppercase()
    estimates_folded,    \* estimate_key_lengths(folded, min_len, max_len)
    ic_folded,           \* calculate_ic(folded)
    frequencies_folded,  \* calculate_frequencies(folded)
    estimates_shifted,   \* estimate_key_lengths(shifted, min_len, max_len)
    values_order,        \* the order in which sequences.values() visits
    into_iter_order,     \* the order in which factor_counts.into_iter() yields
    estimates_hashed,    \* estimate_key_lengths under those two orders
    ciphertext,          \* main: the trimmed line
    config,              \* main: the Config the passes run with
    first_run,           \* main: no custom settings have been entered
    passes,              \* main: the calls of run_analysis_pass so far
    choice,              \* main: how the retry prompt was answered, if shown
    id_results,          \* main: the identification results of the last pass
    top_dec_results,     \* main: the (decoder name, first attempt) pairs of it
    final_results,       \* main: Some((id_results, top_dec_results)) once assigned
    best_index,          \* main: best_overall_decoder_index
    best_cipher          \* main: the cipher name printed as the best guess

analysis_vars == <<min_len, max_len, estimates, observed, expected, score,
                   frequencies, likelihood, trigram, top_n, top_shifts>>

char_vars == <<ch, ch_shifted, ch_back>>

fold_vars == <<folded, estimates_folded, ic_folded, frequencies_folded>>

kasiski_vars == <<estimates_shifted, values_order, into_iter_order, estimates_hashed>>

cli_vars == <<ciphertext, config, first_run, passes, choice, id_results,
              top_dec_results, final_results, best_index, best_cipher>>

other_vars == <<char_vars, fold_vars, kasiski_vars, cli_vars>>

vars == <<pc, text, keyword, shift, min_text_len, encrypted, decrypted, shifted,
          ic_plain, ic_shifted, attempts, ident, search, analysis_vars, other_vars>>

NoSearch == [searched |-> FALSE, key_length_estimates |-> <<>>, key_lengths_to_try |-> <<>>]

Init ==
    /\ pc = "ready"
    /\ text = <<>>
    /\ keyword = <<>>
    /\ shift = 0
    /\ min_text_len = 0
    /\ encrypted = <<>>
    /\ decrypted = <<>>
    /\ shifted = <<>>
    /\ ic_plain = None
    /\ ic_shifted = None
    /\ attempts = <<>>
    /\ ident = None
    /\ search = NoSearch
    /\ min_len = 0
    /\ max_len = 0
    /\ estimates = <<>>
    /\ observed = <<>>
    /\ expected = <<>>
    /\ score = 0
    /\ frequencies = None
    /\ likelihood = None
    /\ trigram = 0
    /\ top_n = 0
    /\ top_shifts = None
    /\ ch = 0
    /\ ch_shifted = 0
    /\ ch_back = None
    /\ folded = <<>>
    /\ estimates_folded = <<>>
    /\ ic_folded = None
    /\ frequencies_folded = None
    /\ estimates_shifted = <<>>
    /\ values_order = <<>>
    /\ into_iter_order = <<>>
    /\ estimates_hashed = <<>>
    /\ ciphertext = <<>>
    /\ config = Config_default
    /\ first_run = TRUE
    /\ passes = 0
    /\ choice = "none"
    /\ id_results = <<>>
    /\ top_dec_results = <<>>
    /\ final_results = None
    /\ best_index = None
    /\ best_cipher = None

\* vigenere_encrypt followed by vigenere_decrypt under the same keyword
VigenereRoundTrip ==
    /\ pc = "ready"
    /\ \E p \in PlainTexts, k \in Keywords :
          \E c \in {vigenere_encrypt(p, k)} :
             /\ text' = p
             /\ keyword' = k
             /\ encrypted' = c
             /\ decrypted' = vigenere_decrypt(c, k)
    /\ pc' = "vigenere_round_trip"
    /\ UNCHANGED <<shift, min_text_len, shifted, ic_plain, ic_shifted, attempts, ident, search>>
    /\ UNCHANGED <<analysis_vars, other_vars>>

\* calculate_ic of a text and of its Caesar shift
IcOfShifted ==
    /\ pc = "ready"
    /\ \E p \in IcTexts, k \in Shifts :
          \E c \in {shift_char_string(p, k)} :
             /\ text' = p
             /\ shift' = k
             /\ shifted' = c
             /\ ic_plain' = calculate_ic(p)
             /\ ic_shifted' = calculate_ic(c)
    /\ pc' = "calculate_ic"
    /\ UNCHANGED <<keyword, min_text_len, encrypted, decrypted, attempts, ident, search>>
    /\ UNCHANGED <<analysis_vars, other_vars>>

\* CaesarDecoder::decrypt
CaesarDecrypt ==
    /\ pc = "ready"
    /\ \E c \in CaesarTexts :
          /\ text' = c
          /\ attempts' = run_caesar_decryption(c)
    /\ pc' = "caesar_decrypt"
    /\ UNCHANGED <<keyword, shift, min_text_len, encrypted, decrypted, shifted,
                   ic_plain, ic_shifted, ident, search>>
    /\ UNCHANGED <<analysis_vars, other_vars>>

\* CaesarIdentifier::identify
CaesarIdentify ==
    /\ pc = "ready"
    /\ \E c \in CaesarTexts :
          /\ text' = c
          /\ ident' = run_caesar_identification(c)
    /\ pc' = "caesar_identify"
    /\ UNCHANGED <<keyword, shift, min_text_len, encrypted, decrypted, shifted,
                   ic_plain, ic_shifted, attempts, search>>
    /\ UNCHANGED <<analysis_vars, other_vars>>

\* VigenereDecoder::decrypt
VigenereDecrypt ==
    /\ pc = "ready"
    /\ \E c \in VigenereTexts, m \in MinTextLens :
          \E r \in {run_vigenere_decryption(c, m)} :
             /\ text' = c
             /\ min_text_len' = m
             /\ attempts' = r.attempts
             /\ search' = [searched |-> r.searched,
                           key_length_estimates |-> r.key_length_estimates,
                           key_lengths_to_try |-> r.key_lengths_to_try]
    /\ pc' = "vigenere_decrypt"
    /\ UNCHANGED <<keyword, shift, encrypted, decrypted, shifted,
                   ic_plain, ic_shifted, ident>>
    /\ UNCHANGED <<analysis_vars, other_vars>>

call_vars == <<keyword, shift, encrypted, decrypted, shifted, ic_shifted, attempts, search>>

\* estimate_key_lengths
EstimateKeyLengths ==
    /\ pc = "ready"
    /\ \E t \in KasiskiTexts, r \in KasiskiRanges :
          /\ text' = t
          /\ min_len' = r[1]
          /\ max_len' = r[2]
          /\ estimates' = estimate_key_lengths(t, r[1], r[2])
    /\ pc' = "estimate_key_lengths"
    /\ UNCHANGED <<call_vars, min_text_len, ic_plain, ident, observed, expected, score,
                   frequencies, likelihood, trigram, top_n, top_shifts, other_vars>>

\* chi_squared_score
ChiSquaredScore ==
    /\ pc = "ready"
    /\ \E o \in Profiles, e \in Profiles :
          /\ observed' = o
          /\ expected' = e
          /\ score' = chi_squared_score(o, e)
    /\ pc' = "chi_squared_score"
    /\ UNCHANGED <<call_vars, text, min_text_len, ic_plain, ident, min_len, max_len,
                   estimates, frequencies, likelihood, trigram, top_n, top_shifts,
                   other_vars>>

\* calculate_frequencies, score_english_likelihood, calculate_ic and
\* score_trigram_log_prob of one text
ScoreText ==
    /\ pc = "ready"
    /\ \E t \in AnalysisTexts :
          /\ text' = t
          /\ frequencies' = calculate_frequencies(t)
          /\ likelihood' = score_english_likelihood(t)
          /\ ic_plain' = calculate_ic(t)
          /\ trigram' = score_trigram_log_prob(t)
    /\ pc' = "score_text"
    /\ UNCHANGED <<call_vars, min_text_len, ident, min_len, max_len, estimates,
                   observed, expected, score, top_n, top_shifts, other_vars>>

\* find_top_n_caesar_shifts_mic
RankColumnShifts ==
    /\ pc = "ready"
    /\ \E t \in MicColumns, n \in TopNs :
          /\ text' = t
          /\ top_n' = n
          /\ top_shifts' = find_top_n_caesar_shifts_mic(t, n)
    /\ pc' = "find_top_n_caesar_shifts_mic"
    /\ UNCHANGED <<call_vars, min_text_len, ic_plain, ident, min_len, max_len, estimates,
                   observed, expected, score, frequencies, likelihood, trigram, other_vars>>

\* VigenereIdentifier::identify
VigenereIdentify ==
    /\ pc = "ready"
    /\ \E t \in IdentifyTexts, m \in IdentifyMinLens :
          /\ text' = t
          /\ min_text_len' = m
          /\ ident' = run_vigenere_identification(t, m)
    /\ pc' = "vigenere_identify"
    /\ UNCHANGED <<call_vars, ic_plain, analysis_vars, other_vars>>

\* shift_char, and shift_char of the result by the opposite shift (-128 has
\* no opposite in i8)
ShiftChar ==
    /\ pc = "ready"
    /\ \E c \in Chars, k \in I8 :
          \E d \in {shift_char(c, k)} :
             /\ ch' = c
             /\ shift' = k
             /\ ch_shifted' = d
             /\ ch_back' = IF k = -128 THEN None ELSE Some(shift_char(d, -k))
    /\ pc' = "shift_char"
    /\ UNCHANGED <<text, keyword, min_text_len, encrypted, decrypted, shifted, ic_plain,
                   ic_shifted, attempts, ident, search, analysis_vars, fold_vars,
                   kasiski_vars, cli_vars>>

\* estimate_key_lengths, calculate_ic and calculate_frequencies of a text and
\* of its upper-cased form
CaseFold ==
    /\ pc = "ready"
    /\ \E t \in CaseTexts, r \in KasiskiRanges :
          \E u \in {str_to_ascii_uppercase(t)} :
             /\ text' = t
             /\ folded' = u
             /\ min_len' = r[1]
             /\ max_len' = r[2]
             /\ estimates' = estimate_key_lengths(t, r[1], r[2])
             /\ estimates_folded' = estimate_key_lengths(u, r[1], r[2])
             /\ ic_plain' = calculate_ic(t)
             /\ ic_folded' = calculate_ic(u)
             /\ frequencies' = calculate_frequencies(t)
             /\ frequencies_folded' = calculate_frequencies(u)
    /\ pc' = "case_fold"
    /\ UNCHANGED <<call_vars, min_text_len, ident, observed, expected, score, likelihood,
                   trigram, top_n, top_shifts, char_vars, kasiski_vars, cli_vars>>

\* CaesarIdentifier::identify and CaesarDecoder::decrypt of the same text
CaesarFullCycle ==
    /\ pc = "ready"
    /\ \E c \in CycleTexts :
          /\ text' = c
          /\ ident' = run_caesar_identification(c)
          /\ attempts' = run_caesar_decryption(c)
    /\ pc' = "caesar_full_cycle"
    /\ UNCHANGED <<keyword, shift, min_text_len, encrypted, decrypted, shifted,
                   ic_plain, ic_shifted, search>>
    /\ UNCHANGED <<analysis_vars, other_vars>>

\* estimate_key_lengths of a text and of its Caesar shift
KasiskiOfShifted ==
    /\ pc = "ready"
    /\ \E t \in ShiftedTexts, k \in Shifts, r \in KasiskiRanges :
          \E c \in {shift_char_string(t, k)} :
             /\ text' = t
             /\ shift' = k
             /\ shifted' = c
             /\ min_len' = r[1]
             /\ max_len' = r[2]
             /\ estimates' = estimate_key_lengths(t, r[1], r[2])
             /\ estimates_shifted' = estimate_key_lengths(c, r[1], r[2])
    /\ pc' = "kasiski_of_shifted"
    /\ UNCHANGED <<keyword, min_text_len, encrypted, decrypted, ic_plain, ic_shifted,
                   attempts, ident, search, observed, expected, score, frequencies,
                   likelihood, trigram, top_n, top_shifts, char_vars, fold_vars,
                   values_order, into_iter_order, estimates_hashed, cli_vars>>

\* estimate_key_lengths under one iteration order of each of its hash maps
EstimateKeyLengthsHashed ==
    /\ pc = "ready"
    /\ \E call \in HashedCalls :
          \E e \in {estimate_key_lengths(call[1], call[2], call[3])},
             n \in {Len(repeated_sequences(get_alphabetic_chars(call[1]), call[2], call[3]))} :
             \E vo \in Orders(n), io \in Orders(Len(e)) :
                /\ text' = call[1]
                /\ min_len' = call[2]
                /\ max_len' = call[3]
                /\ estimates' = e
                /\ values_order' = vo
                /\ into_iter_order' = io
                /\ estimates_hashed' =
                      estimate_key_lengths_hashed(call[1], call[2], call[3], vo, io)
    /\ pc' = "estimate_key_lengths_hashed"
    /\ UNCHANGED <<call_vars, min_text_len, ic_plain, ident, observed, expected, score,
                   frequencies, likelihood, trigram, top_n, top_shifts, char_vars,
                   fold_vars, estimates_shifted, cli_vars>>

lib_vars == <<text, keyword, shift, min_text_len, encrypted, decrypted, shifted,
              ic_plain, ic_shifted, attempts, ident, search, analysis_vars,
              char_vars, fold_vars, kasiski_vars>>

\* main up to the loop: read the line, trim it, exit on an empty one
ReadCiphertext ==
    /\ pc = "ready"
    /\ \E line \in CliLines :
          \E trimmed \in {trim(line)} :
             /\ ciphertext' = trimmed
             /\ pc' = IF trimmed = <<>> THEN "exit" ELSE "analysis_loop"
    /\ config' = Config_default
    /\ first_run' = TRUE
    /\ UNCHANGED <<lib_vars, passes, choice, id_results, top_dec_results, final_results,
                   best_index, best_cipher>>

\* one iteration of the loop in main: the analysis pass, then either the
\* retry prompt and the custom settings, or final_results and break
AnalysisLoop ==
    /\ pc = "analysis_loop"
    /\ \E pass \in {run_analysis_pass(config, ciphertext)} :
          \E answer \in Choices, id_lines \in UsizeInputs, dec_lines \in UsizeInputs :
             LET identified == pass.identification_results # <<>>
                 decrypted_any == any_decrypted(pass.top_results)
                 prompted == retry_offered(first_run, identified, decrypted_any)
                 again == prompted /\ answer # None /\ starts_with_y(Unwrap(answer))
             IN  /\ passes' = passes + 1
                 /\ id_results' = pass.identification_results
                 /\ top_dec_results' = pass.top_results
                 /\ choice' = IF ~prompted THEN choice
                               ELSE IF answer = None THEN "error"
                               ELSE IF again THEN "accepted"
                               ELSE "declined"
                 /\ config' = IF again
                               THEN [vigenere_min_id_len |->
                                        read_usize_input(id_lines, config.vigenere_min_id_len),
                                     vigenere_min_dec_len |->
                                        read_usize_input(dec_lines, config.vigenere_min_dec_len)]
                               ELSE config
                 /\ first_run' = IF again THEN FALSE ELSE first_run
                 /\ final_results' = IF again THEN final_results
                                      ELSE Some(<<pass.identification_results, pass.top_results>>)
                 /\ pc' = IF again THEN "analysis_loop" ELSE "best_guess"
    /\ UNCHANGED <<lib_vars, ciphertext, best_index, best_cipher>>

\* main after the loop: the overall best guess
BestGuess ==
    /\ pc = "best_guess"
    /\ \E index \in {best_overall_decoder_index(Unwrap(final_results)[1],
                                                 Unwrap(final_results)[2])} :
          /\ best_index' = index
          /\ best_cipher' = printed_cipher(Unwrap(final_results)[2], index)
    /\ pc' = "done"
    /\ UNCHANGED <<lib_vars, ciphertext, config, first_run, passes, choice, id_results,
                   top_dec_results, final_results>>

Next ==
    \/ ReadCiphertext
    \/ AnalysisLoop
    \/ BestGuess
    \/ CaesarFullCycle
    \/ KasiskiOfShifted
    \/ EstimateKeyLengthsHashed
    \/ ShiftChar
    \/ CaseFold
    \/ EstimateKeyLengths
    \/ ChiSquaredScore
    \/ ScoreText
    \/ RankColumnShifts
    \/ VigenereIdentify
    \/ VigenereRoundTrip
    \/ IcOfShifted
    \/ CaesarDecrypt
    \/ CaesarIdentify
    \/ VigenereDecrypt

Spec == Init /\ [][Next]_vars

\* a step of main from inside the loop, and one from behind it
LoopProgress == pc = "analysis_loop" /\ passes' = passes + 1
GuessProgress == pc = "best_guess" /\ pc' = "done"

\* main runs on: the loop iteration in progress is carried out, and so is
\* the best guess after the loop.  From these two places AnalysisLoop and
\* BestGuess are the only steps, and they are always possible there.
FairSpec == Init /\ [][Next]_vars /\ WF_passes(LoopProgress) /\ WF_pc(GuessProgress)

\* ------------------------------------------------- vocabulary of the claims
Letters(s) == Cardinality({i \in 1..Len(s) : is_ascii_alphabetic(s[i])})

HasLetter(s) == \E i \in 1..Len(s) : is_ascii_alphabetic(s[i])

Decimal(n) == IF n < 10 THEN <<48 + n>> ELSE <<48 + (n \div 10), 48 + (n % 10)>>

\* the zero-based offset of a letter within its own case's alphabet
LetterOffset(c) == IF is_ascii_uppercase(c) THEN c - 65 ELSE c - 97

SameCase(c, d) ==
    /\ is_ascii_uppercase(c) <=> is_ascii_uppercase(d)
    /\ is_ascii_lowercase(c) <=> is_ascii_lowercase(d)

\* p is c with every letter moved back by s places and nothing else touched
ShiftedBack(p, c, s) ==
    /\ Len(p) = Len(c)
    /\ \A i \in 1..Len(c) :
          IF is_ascii_alphabetic(c[i])
          THEN /\ SameCase(p[i], c[i])
               /\ (LetterOffset(p[i]) + s) % 26 = LetterOffset(c[i])
          ELSE p[i] = c[i]

\* C1: for every keyword that is non-empty and all letters, decrypting the
\* encryption of a text under the same keyword gives the text back, with each
\* non-letter at its position and each letter in its case.
C1_RoundTrip ==
    (pc = "vigenere_round_trip" /\ keyword # <<>>
        /\ \A k \in 1..Len(keyword) : is_ascii_alphabetic(keyword[k]))
    => /\ decrypted = text
       /\ Len(encrypted) = Len(text)
       /\ \A i \in 1..Len(text) :
             IF is_ascii_alphabetic(text[i])
             THEN SameCase(encrypted[i], text[i]) /\ SameCase(decrypted[i], text[i])
             ELSE encrypted[i] = text[i] /\ decrypted[i] = text[i]

C1_Witness ==
    /\ pc = "vigenere_round_trip"
    /\ Len(keyword) >= 2
    /\ \A k \in 1..Len(keyword) : is_ascii_alphabetic(keyword[k])
    /\ \E i, j \in 1..Len(text) :
          i < j /\ ~is_ascii_alphabetic(text[i]) /\ is_ascii_alphabetic(text[j])
    /\ \E i, j \in 1..Len(text) : is_ascii_uppercase(text[i]) /\ is_ascii_lowercase(text[j])
    /\ encrypted # text
    /\ decrypted = text

\* C2: the index of coincidence of a text equals the index of coincidence of
\* any Caesar shift of that text.
C2_IcShiftInvariant ==
    pc = "calculate_ic" => ic_shifted = ic_plain

C2_Witness ==
    /\ pc = "calculate_ic"
    /\ IsSome(ic_plain)
    /\ Unwrap(ic_plain) > 0
    /\ shift \notin {0, 26}
    /\ shifted # text
    /\ \E i \in 1..Len(text) :
          is_ascii_alphabetic(text[i]) /\ LetterOffset(shifted[i]) < LetterOffset(text[i])
                                       /\ shift > 0
    /\ ic_shifted = ic_plain

\* C3: Caesar decryption of a ciphertext with at least one letter returns 26
\* rows, one for each shift 0..25, keyed by the decimal shift, whose plaintext
\* is the ciphertext shifted back by that shift.
C3_CaesarRows ==
    (pc = "caesar_decrypt" /\ HasLetter(text))
    => /\ Len(attempts) = 26
       /\ \A s \in 0..25 :
             /\ Cardinality({i \in 1..Len(attempts) : attempts[i].key = Decimal(s)}) = 1
             /\ \A i \in 1..Len(attempts) :
                   attempts[i].key = Decimal(s)
                   => /\ ShiftedBack(attempts[i].plaintext, text, s)
                      /\ attempts[i].cipher_name = "Caesar"

C3_Witness ==
    /\ pc = "caesar_decrypt"
    /\ HasLetter(text)
    /\ \E i \in 1..Len(text) : ~is_ascii_alphabetic(text[i])
    /\ Len(attempts) = 26
    /\ \E i \in 1..Len(attempts) :
          attempts[i].key = Decimal(25) /\ attempts[i].plaintext # text
                                        /\ ShiftedBack(attempts[i].plaintext, text, 25)

\* C4 as stated: Caesar decryption of a ciphertext without letters, the empty
\* string included, returns exactly one row with key "0" and score f64::MAX.
C4_Original ==
    (pc = "caesar_decrypt" /\ ~HasLetter(text))
    => /\ Len(attempts) = 1
       /\ attempts[1].key = Decimal(0)
       /\ attempts[1].score = F64_MAX

\* C4: Caesar decryption of a non-empty ciphertext without letters returns
\* exactly one row with key "0", the ciphertext as plaintext and score
\* f64::MAX; for the empty string it returns no row at all.
C4_Amended ==
    (pc = "caesar_decrypt" /\ ~HasLetter(text))
    => IF text = <<>>
       THEN attempts = <<>>
       ELSE /\ Len(attempts) = 1
            /\ attempts[1].key = Decimal(0)
            /\ attempts[1].plaintext = text
            /\ attempts[1].score = F64_MAX

C4_Witness ==
    /\ pc = "caesar_decrypt"
    /\ text = NoAlphaText
    /\ Len(attempts) = 1
    /\ attempts[1].score = F64_MAX

\* C5: the list Caesar decryption returns is in non-decreasing order of score.
C5_SortedAscending ==
    pc = "caesar_decrypt"
    => \A i \in 1..(Len(attempts) - 1) : attempts[i].score <= attempts[i + 1].score

C5_Witness ==
    /\ pc = "caesar_decrypt"
    /\ Len(attempts) = 26
    /\ attempts[1].key # Decimal(0)
    /\ attempts[1].score < attempts[26].score
    /\ \E i \in 1..25 : attempts[i].key = Decimal(25)

\* the chi-squared score of the candidate a shift gives, None without letters
CandidateScore(c, s) == score_english_likelihood(shift_char_string(c, -s))

\* C6: Caesar identification returns None exactly when the ciphertext has no
\* letter; otherwise the result names "Caesar", reports a shift in 0..25
\* whose candidate has the lowest chi-squared score of the 26, and has that
\* score as its confidence.
C6_CaesarIdentification ==
    pc = "caesar_identify"
    => /\ (ident = None) <=> ~HasLetter(text)
       /\ IsSome(ident)
          => /\ Unwrap(ident).cipher_name = "Caesar"
             /\ \E s \in 0..25 :
                   /\ Unwrap(ident).parameters = Some(PotentialShift \o Decimal(s))
                   /\ CandidateScore(text, s) = Some(Unwrap(ident).confidence_score)
                   /\ \A t \in 0..25 :
                         Unwrap(CandidateScore(text, t)) >= Unwrap(ident).confidence_score

C6_Witness ==
    /\ pc = "caesar_identify"
    /\ text = ScenarioCipher
    /\ IsSome(ident)
    /\ Unwrap(ident).parameters = Some(PotentialShift \o Decimal(8))
    /\ Unwrap(ident).confidence_score < Unwrap(CandidateScore(text, 0))

\* C7: for the sentence "This is a fairly standard sentence for testing
\* purposes" shifted by 8, the first row of Caesar decryption has key "8" and
\* the exact sentence as plaintext, with a score strictly below every other row.
C7_Scenario ==
    (pc = "caesar_decrypt" /\ text = ScenarioCipher)
    => /\ Len(attempts) = 26
       /\ attempts[1].key = <<56>>
       /\ attempts[1].plaintext = ScenarioPlain
       /\ \A i \in 2..Len(attempts) : attempts[1].score < attempts[i].score

C7_Witness ==
    /\ pc = "caesar_decrypt"
    /\ text = ScenarioCipher
    /\ text # ScenarioPlain
    /\ Len(attempts) = 26
    /\ attempts[1].plaintext = ScenarioPlain

\* C8: Vigenere decryption returns the empty list whenever the letter count
\* of the ciphertext is below min_text_len; a letter count equal to
\* min_text_len is not rejected and the search is attempted.
C8_Gate ==
    pc = "vigenere_decrypt"
    => /\ Letters(text) < min_text_len => (attempts = <<>> /\ ~search.searched)
       /\ Letters(text) >= min_text_len => search.searched

C8_Witness ==
    /\ pc = "vigenere_decrypt"
    /\ min_text_len > 0
    /\ Letters(text) = min_text_len
    /\ Letters(text) < Len(text)
    /\ search.searched
    /\ attempts # <<>>

\* C9: the pooled attempts of Vigenere decryption, over all key lengths
\* tried, are in non-increasing order of score.
C9_SortedDescending ==
    pc = "vigenere_decrypt"
    => \A i \in 1..(Len(attempts) - 1) : attempts[i].score >= attempts[i + 1].score

C9_Witness ==
    /\ pc = "vigenere_decrypt"
    /\ \E i, j \in 1..Len(attempts) :
          /\ i < j
          /\ Len(attempts[i].key) > Len(attempts[j].key)
          /\ attempts[i].score > attempts[j].score
    /\ \E i, j \in 1..Len(attempts) :
          /\ i < j
          /\ Len(attempts[i].key) < Len(attempts[j].key)
          /\ attempts[i].score > attempts[j].score

TopLengths(ests) ==
    [i \in 1..Min(Len(ests), MAX_KEY_LENGTHS_TO_TRY) |-> ests[i][1]]

\* the policy of the design: IC periodicity, then Kasiski, then the default set
FallbackPolicy(alpha_text) ==
    LET by_ic == estimate_key_lengths_ic(alpha_text, MIN_IC_KEY_LEN, MAX_KASISKI_KEY_LEN_DEC)
        by_kasiski == estimate_key_lengths(alpha_text, MIN_KASISKI_SEQ_LEN_DEC,
                                           MAX_KASISKI_KEY_LEN_DEC)
    IN  IF by_ic # <<>> THEN TopLengths(by_ic)
        ELSE IF by_kasiski # <<>> THEN TopLengths(by_kasiski)
        ELSE DEFAULT_KEY_LENGTHS_TO_TRY

\* C10 as stated: the key lengths tried come from the IC-periodicity
\* estimates when there are any, else from the Kasiski estimates when there
\* are any, else from the default set 2..7.
C10_Original ==
    (pc = "vigenere_decrypt" /\ search.searched)
    => search.key_lengths_to_try
          = SelectSeq(FallbackPolicy(get_alphabetic_chars(text)), WithinKeyLenCap)

\* C10: the key lengths tried are the lengths of the first four Kasiski
\* estimates when Kasiski returns any, and the default set 2..7 only when it
\* returns none, in both cases without the lengths above 15; no
\* IC-periodicity estimate takes part.
C10_Amended ==
    (pc = "vigenere_decrypt" /\ search.searched)
    => LET by_kasiski == estimate_key_lengths(SelectSeq(text, is_ascii_alphabetic), 3, 20)
       IN  /\ search.key_length_estimates = by_kasiski
           /\ by_kasiski = <<>> => search.key_lengths_to_try = <<2, 3, 4, 5, 6, 7>>
           /\ by_kasiski # <<>>
              => search.key_lengths_to_try
                    = SelectSeq(TopLengths(by_kasiski), LAMBDA n : n <= 15)

C10_Witness ==
    /\ pc = "vigenere_decrypt"
    /\ search.searched
    /\ Len(search.key_length_estimates) > MAX_KEY_LENGTHS_TO_TRY
    /\ Len(search.key_lengths_to_try) = MAX_KEY_LENGTHS_TO_TRY
    /\ search.key_lengths_to_try # SubSeq(DEFAULT_KEY_LENGTHS_TO_TRY, 1, 4)
    /\ attempts # <<>>

\* the letters of column i (0-based) when n letters are dealt into L columns
ColumnSize(n, L, i) == Cardinality({j \in 0..(n - 1) : j % L = i})

\* some column of key length L has too few letters for the MIC ranking
Unrankable(n, L) == \E i \in 0..(L - 1) : ColumnSize(n, L, i) < MIN_CHARS_FOR_MIC

AttemptsOfLength(L) == {i \in 1..Len(attempts) : Len(attempts[i].key) = L}

TriedLengths == {search.key_lengths_to_try[k] : k \in 1..Len(search.key_lengths_to_try)}

\* C11: when some column of a candidate key length L cannot be ranked, no
\* attempt with a key of length L is returned; every other candidate length
\* is still processed and contributes its attempts, and only candidate
\* lengths contribute.
C11_AbandonLength ==
    (pc = "vigenere_decrypt" /\ search.searched)
    => /\ \A L \in TriedLengths :
             IF Unrankable(Letters(text), L)
             THEN AttemptsOfLength(L) = {}
             ELSE AttemptsOfLength(L) # {}
       /\ \A i \in 1..Len(attempts) : Len(attempts[i].key) \in TriedLengths

\* a length that is abandoned stands between two lengths that are processed
C11_Witness ==
    /\ pc = "vigenere_decrypt"
    /\ search.searched
    /\ \E a, b, c \in 1..Len(search.key_lengths_to_try) :
          /\ a < b /\ b < c
          /\ AttemptsOfLength(search.key_lengths_to_try[a]) # {}
          /\ Unrankable(Letters(text), search.key_lengths_to_try[b])
          /\ AttemptsOfLength(search.key_lengths_to_try[b]) = {}
          /\ AttemptsOfLength(search.key_lengths_to_try[c]) # {}

\* the letters of text, in order
LettersOf(s) == SelectSeq(s, is_ascii_alphabetic)

\* column i (0-based) of the letters a dealt into L columns
ColumnOf(a, L, i) == [k \in 1..ColumnSize(Len(a), L, i) |-> At(a, i + (k - 1) * L + 1)]

\* the candidate shifts of column i: those the MIC ranking puts first
CandidateShifts(a, L, i) ==
    LET top == Unwrap(find_top_n_caesar_shifts_mic(ColumnOf(a, L, i), TOP_N_SHIFTS_PER_COLUMN))
    IN  {At(At(top, j), 1) : j \in 1..Len(top)}

RECURSIVE ProductOfSizes(_, _, _)
ProductOfSizes(a, L, i) ==
    IF i = L THEN 1
    ELSE Cardinality(CandidateShifts(a, L, i)) * ProductOfSizes(a, L, i + 1)

\* C12: for every key length L that is not abandoned, the keys tried are
\* exactly the Cartesian product of the L per-column candidate lists of at
\* most 3 shifts: each combination gives exactly one attempt, so the attempts
\* of length L number the product of the list sizes, at most 3^L.
C12_CartesianProduct ==
    (pc = "vigenere_decrypt" /\ search.searched)
    => \A L \in TriedLengths :
          ~Unrankable(Letters(text), L)
          => /\ \A i \in 0..(L - 1) :
                   Cardinality(CandidateShifts(LettersOf(text), L, i))
                      \in 1..TOP_N_SHIFTS_PER_COLUMN
             /\ Cardinality(AttemptsOfLength(L)) = ProductOfSizes(LettersOf(text), L, 0)
             /\ Cardinality(AttemptsOfLength(L)) <= 3 ^ L
             /\ \A x \in AttemptsOfLength(L) :
                   \A i \in 1..L :
                      attempts[x].key[i] - 65 \in CandidateShifts(LettersOf(text), L, i - 1)
             /\ \A x, y \in AttemptsOfLength(L) :
                   x # y => attempts[x].key # attempts[y].key

C12_Witness ==
    /\ pc = "vigenere_decrypt"
    /\ search.searched
    /\ Cardinality(AttemptsOfLength(3)) = 27
    /\ Cardinality(AttemptsOfLength(2)) = 9
    /\ Len(attempts) = 36

\* the shift the key applies to the letter at position j of the text
KeyShiftAt(key, s, j) ==
    LetterOffset(key[((Cardinality({k \in 1..(j - 1) : is_ascii_alphabetic(s[k])}))
                       % Len(key)) + 1])

\* C13: every attempt Vigenere decryption returns has the plaintext that
\* vigenere_decrypt gives for the ciphertext under the attempt's own key: the
\* same length as the ciphertext, every non-letter unchanged in place, every
\* letter in its case and moved back by its key letter, and the ciphertext
\* again when it is encrypted with the key.
C13_PlaintextOfKey ==
    pc = "vigenere_decrypt"
    => \A x \in 1..Len(attempts) :
          /\ attempts[x].plaintext = vigenere_decrypt(text, attempts[x].key)
          /\ Len(attempts[x].plaintext) = Len(text)
          /\ \A j \in 1..Len(text) :
                IF is_ascii_alphabetic(text[j])
                THEN /\ SameCase(attempts[x].plaintext[j], text[j])
                     /\ (LetterOffset(attempts[x].plaintext[j])
                           + KeyShiftAt(attempts[x].key, text, j)) % 26
                        = LetterOffset(text[j])
                ELSE attempts[x].plaintext[j] = text[j]
          /\ vigenere_encrypt(attempts[x].plaintext, attempts[x].key) = text

C13_Witness ==
    /\ pc = "vigenere_decrypt"
    /\ text = MixedCipher
    /\ \E x \in 1..Len(attempts) :
          /\ Len(attempts[x].key) = 2
          /\ attempts[x].key[1] # attempts[x].key[2]
          /\ attempts[x].plaintext # text
          /\ Len(attempts[x].plaintext) = Len(text)

\* the triples <<len, i, j>>: the substring of len letters at the 0-based
\* index i of the letters a occurs again at index j > i
RepeatedPairs(a, lo, hi) ==
    {p \in (lo..hi) \X (0..(Len(a) - 1)) \X (0..(Len(a) - 1)) :
        /\ p[2] < p[3]
        /\ p[3] + p[1] <= Len(a)
        /\ SubSeq(a, p[2] + 1, p[2] + p[1]) = SubSeq(a, p[3] + 1, p[3] + p[1])}

EntriesOf(f) == {k \in 1..Len(estimates) : estimates[k][1] = f}

\* C14: the count estimate_key_lengths reports for a factor f is the number
\* of (repeated substring, pair i < j of its occurrence positions)
\* combinations, over the substring lengths min_len..min(max_len, n/2), whose
\* distance j - i is divisible by f; a factor without such a pair is absent.
C14_KasiskiVotes ==
    pc = "estimate_key_lengths"
    => LET a == LettersOf(text)
           pairs == RepeatedPairs(a, min_len, Min(max_len, Len(a) \div 2))
       IN  \A f \in 2..max_len :
              LET votes == Cardinality({p \in pairs : (p[3] - p[2]) % f = 0})
              IN  IF votes = 0 THEN EntriesOf(f) = {}
                  ELSE \E k \in EntriesOf(f) : estimates[k][2] = votes

\* a substring with three occurrences: three pairs, distances 6, 6 and 12
C14_Witness ==
    /\ pc = "estimate_key_lengths"
    /\ text = RepeatText
    /\ min_len = 3
    /\ max_len = 20
    /\ \E k \in 1..Len(estimates) : estimates[k] = <<6, 3>>
    /\ \E k \in 1..Len(estimates) : estimates[k] = <<12, 1>>

\* C15: the output of estimate_key_lengths holds each factor at most once,
\* every factor f has 1 < f <= max_len and a count of at least 1, and the
\* entries are in descending order of count, equal counts in ascending
\* order of factor.
C15_KasiskiOutput ==
    pc = "estimate_key_lengths"
    => /\ \A k \in 1..Len(estimates) :
             /\ Len(estimates[k]) = 2
             /\ 1 < estimates[k][1]
             /\ estimates[k][1] <= max_len
             /\ estimates[k][2] >= 1
       /\ \A k, l \in 1..Len(estimates) : k # l => estimates[k][1] # estimates[l][1]
       /\ \A k \in 1..(Len(estimates) - 1) :
             \/ estimates[k][2] > estimates[k + 1][2]
             \/ /\ estimates[k][2] = estimates[k + 1][2]
                /\ estimates[k][1] < estimates[k + 1][1]

C15_Witness ==
    /\ pc = "estimate_key_lengths"
    /\ Len(estimates) >= 4
    /\ \E k \in 1..(Len(estimates) - 1) :
          estimates[k][2] = estimates[k + 1][2] /\ estimates[k][1] < estimates[k + 1][1]
    /\ \E k \in 1..(Len(estimates) - 1) :
          estimates[k][2] > estimates[k + 1][2] /\ estimates[k][1] > estimates[k + 1][1]

\* the pairs <<i, j>>, i < j: the min_len letters at index i of the letters a
\* occur again at index j
Recurrences(a) ==
    {p \in (0..(Len(a) - 1)) \X (0..(Len(a) - 1)) :
        /\ p[1] < p[2]
        /\ p[2] + min_len <= Len(a)
        /\ SubSeq(a, p[1] + 1, p[1] + min_len) = SubSeq(a, p[2] + 1, p[2] + min_len)}

\* some pattern of min_len letters recurs at a distance that is a multiple of K
RecursAtMultipleOf(a, K) == \E p \in Recurrences(a) : (p[2] - p[1]) % K = 0

\* C16 as stated: when a pattern of at least min_len letters recurs at a
\* distance that is a multiple of K, 1 < K <= max_len, estimate_key_lengths
\* returns a non-empty list containing K; without a repeated substring of
\* at least min_len letters it returns the empty list.
C16_Original ==
    pc = "estimate_key_lengths"
    => /\ \A K \in 2..max_len :
             RecursAtMultipleOf(LettersOf(text), K) => EntriesOf(K) # {}
       /\ Recurrences(LettersOf(text)) = {} => estimates = <<>>

\* C16: for a text with at least 2 * min_len letters, and min_len <= max_len,
\* in which a pattern of at least min_len letters recurs at a distance that
\* is a multiple of K, 1 < K <= max_len, estimate_key_lengths returns a
\* non-empty list containing K ("ABCABC" with min 3 gives 3 first); without
\* a repeated substring of at least min_len letters it returns the empty
\* list; a shorter text, or min_len > max_len, gives the empty list whatever
\* recurs.
C16_Amended ==
    pc = "estimate_key_lengths"
    => /\ (Letters(text) >= 2 * min_len /\ min_len <= max_len)
          => \A K \in 2..max_len :
                RecursAtMultipleOf(LettersOf(text), K) => EntriesOf(K) # {}
       /\ (Letters(text) < 2 * min_len \/ min_len > max_len) => estimates = <<>>
       /\ Recurrences(LettersOf(text)) = {} => estimates = <<>>
       /\ (text = AbcAbc /\ min_len = 3 /\ max_len >= 3) => estimates[1][1] = 3

C16_Witness ==
    /\ pc = "estimate_key_lengths"
    /\ text = KasiskiSample
    /\ min_len = 3
    /\ max_len = 15
    /\ RecursAtMultipleOf(LettersOf(text), 5)
    /\ EntriesOf(5) # {}
    /\ estimates[1][1] = 3

\* the buckets that take part in the sum: those with a nonzero expectation
Contributing == {k \in 1..26 : expected[k] # 0}

\* (observed - expected)^2 / expected for bucket k, in units of 1 / Scale
Term(k) ==
    LET d == IF observed[k] < expected[k] THEN expected[k] - observed[k]
             ELSE observed[k] - expected[k]
    IN  (d \div expected[k]) * d + ((d % expected[k]) * d) \div expected[k]

RECURSIVE SumOfTerms(_)
SumOfTerms(ks) ==
    IF ks = {} THEN 0
    ELSE LET k == CHOOSE x \in ks : TRUE IN Term(k) + SumOfTerms(ks \ {k})

\* C17: chi_squared_score of a profile with itself is 0; a bucket with
\* expected 0 and observed 0 adds nothing; a bucket with expected 0 and a
\* nonzero observed value makes the result f64::MAX whatever the other
\* buckets hold; otherwise the result is the sum of
\* (observed - expected)^2 / expected and is never negative.
C17_ChiSquared ==
    pc = "chi_squared_score"
    => /\ observed = expected => score = 0
       /\ (\E k \in 1..26 : expected[k] = 0 /\ observed[k] # 0) => score = F64_MAX
       /\ (\A k \in 1..26 : expected[k] = 0 => observed[k] = 0)
          => /\ score = SumOfTerms(Contributing)
             /\ score < F64_MAX
       /\ score >= 0

C17_Witness ==
    /\ pc = "chi_squared_score"
    /\ \E k \in 1..26 : expected[k] = 0 /\ observed[k] = 0
    /\ \A k \in 1..26 : expected[k] = 0 => observed[k] = 0
    /\ \E k \in 1..26 : expected[k] # 0 /\ observed[k] # expected[k]
    /\ score > 0
    /\ score < F64_MAX

\* the occurrences in s of the letter with 0-based index k, in either case
CountOf(s, k) == Cardinality({i \in 1..Len(s) : s[i] \in {65 + k, 97 + k}})

RECURSIVE SumOfCounts(_, _)
SumOfCounts(s, k) == IF k < 0 THEN 0 ELSE CountOf(s, k) + SumOfCounts(s, k - 1)

\* C18: a missing signal is a value: calculate_frequencies and
\* score_english_likelihood return None exactly when the text has no letter,
\* and otherwise the 26 counts sum to the reported total; calculate_ic
\* returns None exactly when the text has fewer than 2 letters;
\* score_trigram_log_prob returns negative infinity exactly when the text
\* has fewer than 3 letters.
C18_NoSignal ==
    pc = "score_text"
    => /\ (frequencies = None) <=> (Letters(text) = 0)
       /\ (likelihood = None) <=> (Letters(text) = 0)
       /\ IsSome(frequencies)
          => /\ Unwrap(frequencies).total_chars = Letters(text)
             /\ SumOfCounts(text, 25) = Unwrap(frequencies).total_chars
             /\ \A k \in 1..26 :
                   Unwrap(frequencies).frequencies[k]
                      = (CountOf(text, k - 1) * Scale) \div Letters(text)
       /\ (ic_plain = None) <=> (Letters(text) < 2)
       /\ (trigram = NEG_INFINITY) <=> (Letters(text) < 3)

C18_Witness ==
    /\ pc = "score_text"
    /\ Letters(text) = 2
    /\ Len(text) > 2
    /\ IsSome(frequencies)
    /\ IsSome(likelihood)
    /\ IsSome(ic_plain)
    /\ trigram = NEG_INFINITY

\* sum_i englishFreq[i] * observedFreq[(i + g) mod 26], letter by letter
MicOf(s, g) ==
    LET a == LettersOf(s)
        RECURSIVE Sum(_)
        Sum(j) == IF j = 0 THEN 0
                  ELSE ENGLISH_FREQUENCIES[((LetterOffset(a[j]) + 26 - g) % 26) + 1] + Sum(j - 1)
    IN  Sum(Len(a)) \div Len(a)

\* C19: find_top_n_caesar_shifts_mic returns None when topN is 0 or the
\* column has fewer than 5 letters; otherwise it returns exactly topN entries
\* (26 at most) with distinct shifts in 0..25, each with its MIC score
\* sum_i englishFreq[i] * observedFreq[(i + g) mod 26], in non-increasing
\* order of score, and no shift left out scores higher than one returned.
C19_MicRanking ==
    pc = "find_top_n_caesar_shifts_mic"
    => /\ (top_shifts = None) <=> (top_n = 0 \/ Letters(text) < 5)
       /\ IsSome(top_shifts)
          => LET top == Unwrap(top_shifts)
             IN  /\ Len(top) = Min(top_n, 26)
                 /\ \A k \in 1..Len(top) :
                       /\ top[k][1] \in 0..25
                       /\ top[k][2] = MicOf(text, top[k][1])
                 /\ \A k, l \in 1..Len(top) : k # l => top[k][1] # top[l][1]
                 /\ \A k \in 1..(Len(top) - 1) : top[k][2] >= top[k + 1][2]
                 /\ \A g \in 0..25 :
                       (\A k \in 1..Len(top) : top[k][1] # g)
                       => MicOf(text, g) <= top[Len(top)][2]

C19_Witness ==
    /\ pc = "find_top_n_caesar_shifts_mic"
    /\ text = MicCipher
    /\ top_n = 3
    /\ IsSome(top_shifts)
    /\ Len(Unwrap(top_shifts)) = 3
    /\ Unwrap(top_shifts)[1][1] = 3
    /\ Unwrap(top_shifts)[1][2] > Unwrap(top_shifts)[3][2]

\* the ordered pairs of distinct positions of s that hold the same letter,
\* whatever its case: the numerator of the index of coincidence
Coincidences(s) ==
    Cardinality({p \in (1..Len(s)) \X (1..Len(s)) :
                    /\ p[1] # p[2]
                    /\ is_ascii_alphabetic(s[p[1]])
                    /\ is_ascii_alphabetic(s[p[2]])
                    /\ LetterOffset(s[p[1]]) = LetterOffset(s[p[2]])})

\* ic > ENGLISH_IC - 0.005 for the index of coincidence of a text with at
\* least 2 letters
IcAboveGate(s) ==
    Coincidences(s) * 100000 > 6170 * (Letters(s) * (Letters(s) - 1))

\* (ENGLISH_IC - ic) / (ENGLISH_IC - RANDOM_IC), in units of 1 / Scale
RawConfidence(s) ==
    ((6670 - (Coincidences(s) * 100000) \div (Letters(s) * (Letters(s) - 1))) * 100000)
        \div (6670 - 3846)

\* C20: Vigenere identification returns None when the letter count is below
\* min_text_len (a text with exactly min_text_len letters passes the gate),
\* when the IC cannot be computed, or when the IC is above ENGLISH_IC - 0.005;
\* in every other case it returns cipher "Vigenere" with the confidence
\* (ENGLISH_IC - ic) / (ENGLISH_IC - RANDOM_IC) clamped into [0, 1], whatever
\* Kasiski finds.
C20_VigenereIdentification ==
    pc = "vigenere_identify"
    => /\ (ident = None)
          <=> \/ Letters(text) < min_text_len
              \/ Letters(text) < 2
              \/ IcAboveGate(text)
       /\ IsSome(ident)
          => /\ Unwrap(ident).cipher_name = "Vigenere"
             /\ Unwrap(ident).confidence_score >= 0
             /\ Unwrap(ident).confidence_score <= Scale
             /\ Unwrap(ident).confidence_score
                   = IF RawConfidence(text) > Scale THEN Scale
                     ELSE IF RawConfidence(text) < 0 THEN 0
                     ELSE RawConfidence(text)

\* the gate passed with exactly min_text_len letters, a confidence inside
\* (0, 1) and Kasiski estimates in the parameters
C20_Witness ==
    /\ pc = "vigenere_identify"
    /\ text = LowIcRepeat
    /\ Letters(text) = min_text_len
    /\ IsSome(ident)
    /\ Unwrap(ident).confidence_score > 0
    /\ Unwrap(ident).confidence_score < Scale
    /\ Unwrap(ident).confidence_score
          = Unwrap(run_vigenere_identification(LowIcNoRepeat, min_text_len)).confidence_score
    /\ Unwrap(ident).parameters
          # Unwrap(run_vigenere_identification(LowIcNoRepeat, min_text_len)).parameters

\* C21: shift_char returns a character that is not an ASCII letter unchanged;
\* a letter becomes the letter of the same case at the alphabet offset
\* (offset + k) mod 26, Euclidean, for every i8 shift k, without overflow;
\* so a shift by 26 or -26 is the identity, and shifting by k and then by -k
\* gives the character back for every k in -127..127.
C21_ShiftChar ==
    pc = "shift_char"
    => /\ ~is_ascii_alphabetic(ch) => ch_shifted = ch
       /\ is_ascii_alphabetic(ch)
          => /\ ch_shifted \in 0..255
             /\ SameCase(ch_shifted, ch)
             /\ LetterOffset(ch_shifted) \in 0..25
             /\ \E q \in -6..6 : LetterOffset(ch) + shift = 26 * q + LetterOffset(ch_shifted)
       /\ shift \in {26, -26} => ch_shifted = ch
       /\ shift \in (-127)..127 => ch_back = Some(ch)

\* a negative shift that wraps below the start of the alphabet, and back
C21_Witness ==
    /\ pc = "shift_char"
    /\ ch = 97
    /\ shift = -127
    /\ ch_shifted = 100
    /\ ch_back = Some(97)

\* C22 as stated: analysis is case-insensitive: estimate_key_lengths,
\* calculate_ic and calculate_frequencies give the same result for a text and
\* for its upper-cased form.
C22_Original ==
    pc = "case_fold"
    => /\ estimates = estimates_folded
       /\ ic_plain = ic_folded
       /\ frequencies = frequencies_folded

\* the two counting analyses fold the case; the Kasiski scan does not
C22_Witness ==
    /\ pc = "case_fold"
    /\ text = AbcMixed
    /\ folded = AbcAbc
    /\ min_len = 3
    /\ max_len = 5
    /\ ic_plain = ic_folded
    /\ frequencies = frequencies_folded
    /\ estimates = <<>>
    /\ estimates_folded = << <<3, 1>> >>

\* C24 as stated: whenever the ciphertext passes the minimum-length gate of
\* Vigenere decryption, the list of key lengths left after taking the top
\* estimates and applying the cap of 15 is not empty, so at least one key
\* length is attempted.
C24_Original ==
    (pc = "vigenere_decrypt" /\ search.searched)
    => search.key_lengths_to_try # <<>>

\* the only Kasiski estimate is 17, above the cap: nothing is left to try
C24_Witness ==
    /\ pc = "vigenere_decrypt"
    /\ text = FarRepeatText
    /\ Letters(text) >= min_text_len
    /\ search.searched
    /\ search.key_length_estimates = << <<17, 1>> >>
    /\ search.key_lengths_to_try = <<>>
    /\ attempts = <<>>

\* C25: every attempt Vigenere decryption returns has cipher_name "Vigenere"
\* and a key of uppercase letters A-Z whose length L satisfies 2 <= L <= 15;
\* one call tries at most 4 distinct lengths when Kasiski gives estimates and
\* at most the 6 default lengths otherwise, and never a key of length 1.
C25_KeyShape ==
    pc = "vigenere_decrypt"
    => /\ \A x \in 1..Len(attempts) :
             /\ attempts[x].cipher_name = "Vigenere"
             /\ Len(attempts[x].key) \in 2..15
             /\ \A j \in 1..Len(attempts[x].key) : attempts[x].key[j] \in 65..90
       /\ \A L \in TriedLengths : L \in 2..15
       /\ search.key_length_estimates # <<>>
          => /\ Len(search.key_lengths_to_try) <= 4
             /\ Cardinality(TriedLengths) <= 4
       /\ search.key_length_estimates = <<>>
          => /\ Len(search.key_lengths_to_try) <= 6
             /\ Cardinality(TriedLengths) <= 6

\* four Kasiski lengths tried, keys of two lengths returned
C25_Witness ==
    /\ pc = "vigenere_decrypt"
    /\ search.searched
    /\ search.key_length_estimates # <<>>
    /\ Cardinality(TriedLengths) = 4
    /\ \E x, y \in 1..Len(attempts) :
          /\ Len(attempts[x].key) = 2
          /\ Len(attempts[y].key) = 3
          /\ \E j \in 1..3 : attempts[y].key[j] # 65

\* the 0-based positions, among the letters of s, of the letters of s
LetterIndex(s, j) == Cardinality({k \in 1..(j - 1) : is_ascii_alphabetic(s[k])})

\* C26: column and key phase agree: for every key length L, the n-th letter
\* of the ciphertext (counting letters only, from 0) is element n div L of
\* column n mod L, and the columns hold nothing else; in every attempt that
\* letter is decrypted with key position n mod L, whose shift is one of those
\* ranked for column n mod L; non-letters stay as they are and do not
\* advance the key position.
C26_ColumnPhase ==
    pc = "vigenere_decrypt"
    => LET a == LettersOf(text)
       IN  /\ \A L \in 1..MAX_VIGENERE_KEY_LEN_TO_ATTEMPT :
                 /\ \A n \in 0..(Len(a) - 1) :
                       /\ Len(vigenere_column(a, n % L, L)) > n \div L
                       /\ At(vigenere_column(a, n % L, L), (n \div L) + 1) = At(a, n + 1)
                 /\ \A i \in 0..(L - 1) :
                       Len(vigenere_column(a, i, L)) = ColumnSize(Len(a), L, i)
           /\ \A L \in TriedLengths :
                 \A i \in 0..(L - 1) :
                    \A x \in AttemptsOfLength(L) :
                       /\ \E r \in {find_top_n_caesar_shifts_mic(vigenere_column(a, i, L),
                                                                  TOP_N_SHIFTS_PER_COLUMN)} :
                             /\ IsSome(r)
                             /\ \E k \in 1..Len(Unwrap(r)) :
                                   At(At(Unwrap(r), k), 1) = attempts[x].key[i + 1] - 65
                       /\ \A j \in 1..Len(text) :
                             IF ~is_ascii_alphabetic(text[j])
                             THEN attempts[x].plaintext[j] = text[j]
                             ELSE LetterIndex(text, j) % L = i
                                  => /\ SameCase(attempts[x].plaintext[j], text[j])
                                     /\ LetterOffset(attempts[x].plaintext[j])
                                        = (LetterOffset(text[j]) + 26
                                             - (attempts[x].key[i + 1] - 65)) % 26

\* a letter behind a non-letter: its place in the text and its place among
\* the letters call for different key positions, and the key letters differ
C26_Witness ==
    /\ pc = "vigenere_decrypt"
    /\ \E x \in 1..Len(attempts) :
          /\ Len(attempts[x].key) = 2
          /\ attempts[x].key[1] # attempts[x].key[2]
          /\ \E j \in 1..Len(text) :
                /\ is_ascii_alphabetic(text[j])
                /\ LetterIndex(text, j) % 2 # (j - 1) % 2
                /\ LetterOffset(attempts[x].plaintext[j])
                   = (LetterOffset(text[j]) + 26
                        - (attempts[x].key[(LetterIndex(text, j) % 2) + 1] - 65)) % 26
                /\ LetterOffset(attempts[x].plaintext[j])
                   # (LetterOffset(text[j]) + 26
                        - (attempts[x].key[((j - 1) % 2) + 1] - 65)) % 26

\* the smallest shift among those whose candidate has the lowest score
LowestShift(c) ==
    CHOOSE s \in 0..25 :
       /\ \A t \in 0..25 : Unwrap(CandidateScore(c, t)) >= Unwrap(CandidateScore(c, s))
       /\ \A t \in 0..(s - 1) : Unwrap(CandidateScore(c, t)) > Unwrap(CandidateScore(c, s))

\* C27: for every text with at least one letter, the shift that Caesar
\* identification reports is the key of the first row of Caesar decryption
\* and its confidence is that row's score; when several shifts tie for the
\* lowest score, both pick the smallest of them.
C27_CaesarAgreement ==
    (pc = "caesar_full_cycle" /\ HasLetter(text))
    => /\ IsSome(ident)
       /\ attempts # <<>>
       /\ Unwrap(ident).parameters = Some(PotentialShift \o attempts[1].key)
       /\ Unwrap(ident).confidence_score = attempts[1].score
       /\ attempts[1].key = Decimal(LowestShift(text))

\* the alphabet: every shift gives the same letter counts, so all 26 tie
C27_Witness ==
    /\ pc = "caesar_full_cycle"
    /\ text = AlphabetText
    /\ Len(attempts) = 26
    /\ attempts[26].score = attempts[1].score
    /\ attempts[1].key = Decimal(0)
    /\ IsSome(ident)
    /\ Unwrap(ident).parameters = Some(PotentialShift \o Decimal(0))

\* C28: estimate_key_lengths returns the same vector whatever order its hash
\* maps are iterated in: the result is strictly ordered by count descending
\* and then factor ascending, and equals the result under any other order.
C28_HashOrderIrrelevant ==
    pc = "estimate_key_lengths_hashed"
    => /\ estimates_hashed = estimates
       /\ \A i, j \in 1..Len(estimates_hashed) :
             i < j => FactorOrder(estimates_hashed[i], estimates_hashed[j])

\* several repeated substrings visited out of order, and counted factors
\* with equal counts handed out last to first
C28_Witness ==
    /\ pc = "estimate_key_lengths_hashed"
    /\ text = AbandonText
    /\ Len(values_order) > 1
    /\ values_order[1] # 1
    /\ Len(estimates) > 2
    /\ estimates[1][2] = estimates[2][2]
    /\ into_iter_order = [k \in 1..Len(estimates) |-> Len(estimates) + 1 - k]
    /\ estimates_hashed = estimates

\* C29: the Kasiski estimate of a Caesar-shifted text is the estimate of the
\* text itself, for the same min_len and max_len.
C29_KasiskiShiftInvariant ==
    pc = "kasiski_of_shifted" => estimates_shifted = estimates

C29_Witness ==
    /\ pc = "kasiski_of_shifted"
    /\ text = AbcAbc
    /\ shift = 127
    /\ shifted # text
    /\ estimates = << <<3, 1>> >>
    /\ estimates_shifted = estimates

NoAttempt(results) == \A k \in 1..Len(results) : results[k].attempt = None

\* one iteration of the analysis loop, as the claim describes it
LoopStep ==
    pc = "analysis_loop"
    => /\ passes' = passes + 1
       /\ passes' <= 2
       \* the retry is offered only after an empty first pass
       /\ choice' # choice
          => /\ passes = 0
             /\ id_results' = <<>>
             /\ NoAttempt(top_dec_results')
       \* a second pass runs only if the user accepts
       /\ pc' = "analysis_loop" => (choice' = "accepted" /\ choice = "none")
       \* after the second pass the loop exits, whatever its outcome
       /\ passes = 1 => pc' = "best_guess"
       \* the loop exits with the results of its last pass
       /\ pc' = "best_guess"
          => final_results' = Some(<<id_results', top_dec_results'>>)
       /\ pc' \in {"analysis_loop", "best_guess"}

C30_IndexAligned ==
    /\ (pc = "vigenere_identify" /\ IsSome(ident))
       => IsSome(run_caesar_identification(text))
    /\ Len(id_results) <= Len(top_dec_results)
    /\ \A i \in 1..Len(id_results) :
          /\ id_results[i].cipher_name = top_dec_results[i].decoder_name
          /\ IsSome(top_dec_results[i].attempt)
             => Unwrap(top_dec_results[i].attempt).cipher_name = id_results[i].cipher_name
    /\ (pc = "done" /\ IsSome(best_index))
       => /\ Unwrap(best_index) < Len(id_results)
          /\ best_cipher = Some(id_results[Unwrap(best_index) + 1].cipher_name)

\* both identifiers answer, the Vigenere identification is the more
\* confident one, and the attempt printed is the Vigenere decoder's
C30_Witness ==
    /\ pc = "done"
    /\ ciphertext = LongPeriodText
    /\ Len(id_results) = 2
    /\ id_results[2].cipher_name = "Vigenere"
    /\ best_index = Some(1)
    /\ best_cipher = Some("Vigenere")

====
